---------------------------- MODULE Spec2Model ----------------------------
(***************************************************************************)
(* Halftone dot generator: the colour interpolator (core/src/utils/color), *)
(* the dot field generator and the export renderers (core/src/halftone),   *)
(* the live raster renderer and the image loading and recolouring effects  *)
(* of the hook (components/CanvasDisplay, useHalftone), and the click      *)
(* pulse of the preview (CanvasDisplay, handleClickPulse).                 *)
(*                                                                         *)
(* Numbers are exact rationals [n, d] with d > 0, kept in lowest terms;     *)
(* the rounding error of IEEE doubles is not modelled.  Strings that the    *)
(* code parses or builds character by character are sequences of           *)
(* one-character strings; markup is the sequence of its parts.             *)
(* The debug logging of generateLottieAnimation (fetch, Blob) is left out: *)
(* it does not touch the arguments or the returned document.               *)
(***************************************************************************)
EXTENDS Integers, Sequences, FiniteSets, TLC

VARIABLES
    hexA, hexB, amount, lerpResult,      \* lerpColor: arguments and result
    pixelData, width, height, settings,  \* generateDotsData: arguments
    dots, prevDots, calls,               \* dot field, the previous call's, call count
    animationSettings,                   \* renderers: optional animation settings
    svgString, lottie, surface,          \* renderers: outputs
    recolored, lottieRecolored,          \* a second export: its dots and settings, its document
    imageSrc, imageElementRef,           \* useHalftone: the source given, the image installed
    loads, nextLoad,                     \* useHalftone: images still loading, loads started
    now, lastClickTsRef,                 \* click pulse: the clock, the last accepted click
    clickAnimationFrameRef,              \* click pulse: the handle of the frame requested
    frames, nextFrame,                   \* click pulse: frame callbacks pending, handles issued
    clickWaveEnabledRef, clickPulses,    \* click pulse: keyframes injected, pulses applied
    mounted,                             \* click pulse: the component is mounted
    done                                 \* the operations that have run

vars == <<hexA, hexB, amount, lerpResult, pixelData, width, height, settings,
          dots, prevDots, calls, animationSettings, svgString, lottie,
          surface, recolored, lottieRecolored, imageSrc, imageElementRef,
          loads, nextLoad, now, lastClickTsRef, clickAnimationFrameRef,
          frames, nextFrame, clickWaveEnabledRef, clickPulses, mounted, done>>

\* the state of the live hook's image loading and of the click pulse
hookVars == <<imageSrc, imageElementRef, loads, nextLoad>>
clickVars == <<now, lastClickTsRef, clickAnimationFrameRef, frames, nextFrame,
               clickWaveEnabledRef, clickPulses, mounted>>

-----------------------------------------------------------------------------
(* Bounds of the model *)

\* amounts are k/AmtDen for k in -AmtDen .. 2*AmtDen
AmtDen == 4
\* image width and height range over 1..MaxDim
MaxDim == 3
\* resolution (grid columns) ranges over 1..MaxRes
MaxRes == 2
\* random streams are numbered 0..MaxSeed and return multiples of 1/RandDen
MaxSeed == 1
RandDen == 4
\* small dot fields have 0..MaxSmallField dots
MaxSmallField == 3
\* large dot fields have k * maxDots - 1 .. k * maxDots + MaxBigExtra dots,
\* for k in 1..MaxStride
MaxStride == 2
MaxBigExtra == 2

-----------------------------------------------------------------------------
(* Rational arithmetic *)

Abs(i) == IF i < 0 THEN -i ELSE i

RECURSIVE Gcd(_, _)
Gcd(a, b) == IF b = 0 THEN a ELSE Gcd(b, a % b)

\* the rational n/d (d > 0) in lowest terms
R(n, d) ==
    LET g == Gcd(Abs(n), d)
    IN  [n |-> n \div g, d |-> d \div g]

RInt(i) == [n |-> i, d |-> 1]
RAdd(a, b) == R(a.n * b.d + b.n * a.d, a.d * b.d)
RSub(a, b) == R(a.n * b.d - b.n * a.d, a.d * b.d)
RMul(a, b) == R(a.n * b.n, a.d * b.d)
\* a / b for b > 0
RDiv(a, b) == R(a.n * b.d, a.d * b.n)
RLt(a, b) == a.n * b.d < b.n * a.d
RLe(a, b) == a.n * b.d <= b.n * a.d
RMin(a, b) == IF RLt(b, a) THEN b ELSE a
RMax(a, b) == IF RLt(a, b) THEN b ELSE a

\* Math.floor, Math.ceil and Math.round (halves towards +infinity)
Floor(a) == a.n \div a.d
Ceil(a) == -((-a.n) \div a.d)
Round(a) == (2 * a.n + a.d) \div (2 * a.d)

-----------------------------------------------------------------------------
(* Colour interpolator: core/src/utils/color.ts *)

Digits == <<"0", "1", "2", "3", "4", "5", "6", "7", "8", "9">>
LowerHex == <<"a", "b", "c", "d", "e", "f">>
UpperHex == <<"A", "B", "C", "D", "E", "F">>
HexDigits == Digits \o LowerHex

\* the character class [a-f\d] under the i flag
IsHexChar(ch) ==
    \E i \in 1..16 : HexDigits[i] = ch \/ (i > 10 /\ UpperHex[i - 10] = ch)

HexCharValue(ch) ==
    CHOOSE v \in 0..15 :
        HexDigits[v + 1] = ch \/ (v >= 10 /\ UpperHex[v - 9] = ch)

\* parseInt(s, 16) of a string of hex digits
RECURSIVE ParseHex(_)
ParseHex(s) ==
    IF s = << >> THEN 0
    ELSE 16 * ParseHex(SubSeq(s, 1, Len(s) - 1)) + HexCharValue(s[Len(s)])

\* Number.prototype.toString(16) of a natural number
RECURSIVE ToString16(_)
ToString16(v) ==
    IF v < 16 THEN <<HexDigits[v + 1]>>
    ELSE ToString16(v \div 16) \o <<HexDigits[(v % 16) + 1]>>

RECURSIVE PadStart(_, _, _)
PadStart(s, len, ch) == IF Len(s) >= len THEN s ELSE PadStart(<<ch>> \o s, len, ch)

Null == [null |-> TRUE]

\* /^#?([a-f\d]{2})([a-f\d]{2})([a-f\d]{2})$/i and the three parseInt calls
hexToRgb(hex) ==
    LET body == IF hex # << >> /\ hex[1] = "#" THEN Tail(hex) ELSE hex
    IN  IF Len(body) = 6 /\ \A i \in 1..6 : IsHexChar(body[i])
        THEN [r |-> ParseHex(SubSeq(body, 1, 2)),
              g |-> ParseHex(SubSeq(body, 3, 4)),
              b |-> ParseHex(SubSeq(body, 5, 6))]
        ELSE Null

\* a faulty variant: the padding and the leading marker digit are dropped
rgbToHexUnpadded(r, g, b) ==
    <<"#">> \o ToString16(r * 65536 + g * 256 + b)

\* "#" + ((1 << 24) + (r << 16) + (g << 8) + b).toString(16).slice(1).padStart(6, "0")
rgbToHex(r, g, b) ==
    <<"#">> \o PadStart(Tail(ToString16(16777216 + r * 65536 + g * 256 + b)), 6, "0")

\* Math.max(0, Math.min(1, amount))
ClampAmount(amt) == RMax(RInt(0), RMin(RInt(1), amt))

\* a faulty variant: the channel is truncated instead of rounded
LerpChannelTruncated(c1, c2, a) == Floor(RAdd(RInt(c1), RMul(RInt(c2 - c1), a)))

\* Math.round(c1 + (c2 - c1) * a)
LerpChannel(c1, c2, a) == Round(RAdd(RInt(c1), RMul(RInt(c2 - c1), a)))

\* a faulty variant: a failed parse of the second colour falls back to the second colour
lerpColorFallbackB(color1, color2, amt) ==
    LET c1 == hexToRgb(color1)
        c2 == hexToRgb(color2)
    IN  IF c1 = Null THEN color1
        ELSE IF c2 = Null THEN color2
        ELSE LET a == ClampAmount(amt)
             IN  rgbToHex(LerpChannel(c1.r, c2.r, a),
                          LerpChannel(c1.g, c2.g, a),
                          LerpChannel(c1.b, c2.b, a))

\* a faulty variant: the interpolation runs from the second colour to the first
lerpColorReversed(color1, color2, amt) ==
    LET c1 == hexToRgb(color1)
        c2 == hexToRgb(color2)
    IN  IF c1 = Null \/ c2 = Null THEN color1
        ELSE LET a == ClampAmount(amt)
             IN  rgbToHex(LerpChannel(c2.r, c1.r, a),
                          LerpChannel(c2.g, c1.g, a),
                          LerpChannel(c2.b, c1.b, a))

lerpColor(color1, color2, amt) ==
    LET c1 == hexToRgb(color1)
        c2 == hexToRgb(color2)
    IN  IF c1 = Null \/ c2 = Null THEN color1
        ELSE LET a == ClampAmount(amt)
             IN  rgbToHex(LerpChannel(c1.r, c2.r, a),
                          LerpChannel(c1.g, c2.g, a),
                          LerpChannel(c1.b, c2.b, a))

-----------------------------------------------------------------------------
(* Dot field generator: core/src/halftone.ts, generateDotsData *)

\* a value read past the end of the pixel buffer, and the NaN it turns into
Undefined == -1
NaN == [n |-> 0, d |-> 0]

\* pixelData[i] of a Uint8ClampedArray (0-based)
PixelAt(data, i) == IF i + 1 \in DOMAIN data THEN data[i + 1] ELSE Undefined

\* Math.random(): the k-th value (k = 0, 1, ...) of stream seed, in [0, 1)
Random(seed, k) == R((seed + k * (seed + 1)) % RandDen, RandDen)

\* rows = Math.round(cols * (height / width))
GridRows(cols, w, h) == Round(R(cols * h, w))

\* a faulty variant: a mistyped weight, so that the weights sum to more than 1
LuminanceBadWeights(red, green, blue, invert) ==
    IF red = Undefined \/ green = Undefined \/ blue = Undefined THEN NaN
    ELSE LET l == R(299 * red + 587 * green + 144 * blue, 255000)
         IN  IF invert THEN RSub(RInt(1), l) ELSE l

\* (0.299 * red + 0.587 * green + 0.114 * blue) / 255, and its inversion
Luminance(red, green, blue, invert) ==
    IF red = Undefined \/ green = Undefined \/ blue = Undefined THEN NaN
    ELSE LET l == R(299 * red + 587 * green + 114 * blue, 255000)
         IN  IF invert THEN RSub(RInt(1), l) ELSE l

\* baseSize = (Math.min(cellWidth, cellHeight) / 2) * dotSize
BaseSize(cellWidth, cellHeight, dotSize) ==
    RMul(RDiv(RMin(cellWidth, cellHeight), RInt(2)), dotSize)

\* a faulty variant: the cell is sampled at its far edge
SamplePointFarEdge(origin, cell) == Floor(RAdd(origin, cell))

\* Math.floor(x + cellWidth / 2), Math.floor(y + cellHeight / 2)
SamplePoint(origin, cell) == Floor(RAdd(origin, RDiv(cell, RInt(2))))

\* a faulty variant: the offset is not centred on the middle of the cell
JitterUncentred(u, randomness, cell) == RMul(RMul(u, randomness), cell)

\* a faulty variant: the offset is not scaled by randomness
JitterUnscaled(u, randomness, cell) == RMul(RSub(u, R(1, 2)), cell)

\* (Math.random() - 0.5) * randomness * cell
Jitter(u, randomness, cell) == RMul(RMul(RSub(u, R(1, 2)), randomness), cell)

\* a faulty variant: the two directions are exchanged
GradientPosSwapped(direction, x, y, w, h) ==
    IF direction = "vertical" THEN RDiv(x, RInt(w)) ELSE RDiv(y, RInt(h))

\* gradientDirection === "vertical" ? y / height : x / width, for the cell's
\* top-left corner (x, y)
GradientPos(direction, x, y, w, h) ==
    IF direction = "vertical" THEN RDiv(y, RInt(h)) ELSE RDiv(x, RInt(w))

\* the dot of grid cell (r, c); k is the cell's row-major index
GridDot(data, w, h, s, rows, seed, r, c) ==
    LET cols == s.resolution
        cellWidth == R(w, cols)
        cellHeight == R(h, rows)
        x == RMul(RInt(c), cellWidth)
        y == RMul(RInt(r), cellHeight)
        sampleX == SamplePoint(x, cellWidth)
        sampleY == SamplePoint(y, cellHeight)
        pixelIndex == (sampleY * w + sampleX) * 4
        luminance == Luminance(PixelAt(data, pixelIndex),
                               PixelAt(data, pixelIndex + 1),
                               PixelAt(data, pixelIndex + 2), s.invert)
        baseSize == BaseSize(cellWidth, cellHeight, s.dotSize)
        k == r * cols + c
        randX == Jitter(Random(seed, 2 * k), s.randomness, cellWidth)
        randY == Jitter(Random(seed, 2 * k + 1), s.randomness, cellHeight)
        gradientPos == GradientPos(s.gradientDirection, x, y, w, h)
    IN  [x |-> RAdd(RAdd(x, RDiv(cellWidth, RInt(2))), randX),
         y |-> RAdd(RAdd(y, RDiv(cellHeight, RInt(2))), randY),
         size |-> IF luminance = NaN THEN NaN ELSE RMul(baseSize, luminance),
         color |-> IF s.useGradient
                   THEN lerpColor(s.color1, s.color2, gradientPos)
                   ELSE s.color1]

\* the dots in row-major order; no row is visited when rows = 0
generateDotsData(data, w, h, s, seed) ==
    LET cols == s.resolution
        rows == GridRows(cols, w, h)
    IN  [k \in 1..(rows * cols) |->
            GridDot(data, w, h, s, rows, seed, (k - 1) \div cols, (k - 1) % cols)]

-----------------------------------------------------------------------------
(* Export renderers: core/src/halftone.ts *)

\* Number.prototype.toFixed(digits), as the count of units of 10^-digits:
\* the nearest one, the one farther from zero at a tie
RECURSIVE Pow10(_)
Pow10(k) == IF k = 0 THEN 1 ELSE 10 * Pow10(k - 1)

ToFixed(a, digits) ==
    IF a.n < 0 THEN -Round(RMul(R(-a.n, a.d), RInt(Pow10(digits))))
    ELSE Round(RMul(a, RInt(Pow10(digits))))

\* a faulty variant: without animationSettings the pulse is off
AnimationDefaultsPulseOff ==
    [organicPulse |-> FALSE, pulseStrength |-> R(2, 25), pulseTempo |-> RInt(1)]

\* the destructuring defaults of an absent animationSettings
AnimationDefaults ==
    [organicPulse |-> TRUE, pulseStrength |-> R(2, 25), pulseTempo |-> RInt(1)]

AnimationOrDefaults(anim) ==
    IF anim.supplied
    THEN [organicPulse |-> anim.organicPulse,
          pulseStrength |-> anim.pulseStrength,
          pulseTempo |-> anim.pulseTempo]
    ELSE AnimationDefaults

\* a faulty variant: the static renderer caps the pulse at 0.5
SvgClampedPulseWide(anim) ==
    RMax(RInt(0), RMin(AnimationOrDefaults(anim).pulseStrength, R(1, 2)))

\* generateSvgString: Math.max(0, Math.min(pulseStrength, 0.35))
SvgClampedPulse(anim) ==
    RMax(RInt(0), RMin(AnimationOrDefaults(anim).pulseStrength, R(7, 20)))

\* generateSvgString: Math.max(0.25, Math.min(pulseTempo, 3))
SvgClampedTempo(anim) ==
    RMax(R(1, 4), RMin(AnimationOrDefaults(anim).pulseTempo, RInt(3)))

\* generateLottieAnimation: Math.max(0, Math.min(pulseStrength, 0.35))
LottieClampedPulse(anim) ==
    RMax(RInt(0), RMin(AnimationOrDefaults(anim).pulseStrength, R(7, 20)))

\* generateLottieAnimation: Math.max(0.25, Math.min(pulseTempo, 3))
LottieClampedTempo(anim) ==
    RMax(R(1, 4), RMin(AnimationOrDefaults(anim).pulseTempo, RInt(3)))

\* a faulty variant: dots of any positive size are rendered
IsVisiblePositive(dot) == RLt(RInt(0), dot.size)

\* dot.size > 0.1
IsVisible(dot) == RLt(R(1, 10), dot.size)

\* String.prototype.replace(/ch/g, by)
RECURSIVE ReplaceAll(_, _, _)
ReplaceAll(str, ch, by) ==
    IF str = << >> THEN << >>
    ELSE (IF Head(str) = ch THEN by ELSE <<Head(str)>>)
             \o ReplaceAll(Tail(str), ch, by)

\* a faulty variant: "&" is replaced last, after "<" and ">"
EscapeCharAmpersandLast(char) ==
    ReplaceAll(ReplaceAll(ReplaceAll(char, "<", <<"&", "l", "t", ";">>),
                          ">", <<"&", "g", "t", ";">>),
               "&", <<"&", "a", "m", "p", ";">>)

\* char.replace(/&/g, "&amp;").replace(/</g, "&lt;").replace(/>/g, "&gt;")
EscapeChar(char) ==
    ReplaceAll(ReplaceAll(ReplaceAll(char, "&", <<"&", "a", "m", "p", ";">>),
                          "<", <<"&", "l", "t", ";">>),
               ">", <<"&", "g", "t", ";">>)

\* a faulty variant: the keyframes and the animation name are emitted whether
\* or not the pulse is on
SvgDefsAlwaysAnimated(s, anim) ==
    LET clampedPulse == SvgClampedPulse(anim)
        maxScale == RAdd(RInt(1), clampedPulse)
    IN  [kind |-> "defs",
         keyframes |->
             [name |-> "htPulse",
              opacity |-> ToFixed(RSub(R(17, 20), RMul(clampedPulse, R(1, 4))), 2),
              scale |-> ToFixed(maxScale, 3)],
         dotRule |-> [class |-> "ht-dot", animationName |-> "htPulse"],
         pattern |-> IF s.fillPattern = "solid" THEN "none" ELSE s.fillPattern]

\* the <defs> block: the style rules and the fill pattern
SvgDefs(s, anim) ==
    LET a == AnimationOrDefaults(anim)
        clampedPulse == SvgClampedPulse(anim)
        maxScale == RAdd(RInt(1), clampedPulse)
    IN  [kind |-> "defs",
         keyframes |->
             IF a.organicPulse
             THEN [name |-> "htPulse",
                   opacity |-> ToFixed(RSub(R(17, 20), RMul(clampedPulse, R(1, 4))), 2),
                   scale |-> ToFixed(maxScale, 3)]
             ELSE [name |-> "none"],
         dotRule |-> [class |-> "ht-dot",
                      animationName |-> IF a.organicPulse THEN "htPulse" ELSE "none"],
         pattern |-> IF s.fillPattern = "solid" THEN "none" ELSE s.fillPattern]

\* a faulty variant: the delay is multiplied by the tempo
SvgDelayTimesTempo(dot, w, h, anim) ==
    LET normX == RDiv(dot.x, RInt(w))
        normY == RDiv(dot.y, RInt(h))
    IN  RMul(RMul(RAdd(normX, normY), RInt(4)), SvgClampedTempo(anim))

\* delay = ((normX + normY) * 4) / clampedTempo, in seconds
SvgDelay(dot, w, h, anim) ==
    LET normX == RDiv(dot.x, RInt(w))
        normY == RDiv(dot.y, RInt(h))
    IN  RDiv(RMul(RAdd(normX, normY), RInt(4)), SvgClampedTempo(anim))

\* duration = (6 + normX * 2) / clampedTempo, in seconds
SvgDuration(dot, w, h, anim) ==
    LET normX == RDiv(dot.x, RInt(w))
    IN  RDiv(RAdd(RInt(6), RMul(normX, RInt(2))), SvgClampedTempo(anim))

\* the markup of one rendered dot: a group around one shape element
SvgElement(dot, w, h, s, anim) ==
    LET a == AnimationOrDefaults(anim)
        fillAttr == IF s.fillPattern = "solid" THEN dot.color
                    ELSE <<"u", "r", "l", "(", "#", "f", "i", "l", "l",
                           "P", "a", "t", "t", "e", "r", "n", ")">>
        transformAttr ==
            IF s.dotShape # "round" /\ s.angle # 0
            THEN [rotate |-> s.angle, cx |-> ToFixed(dot.x, 2), cy |-> ToFixed(dot.y, 2)]
            ELSE [rotate |-> "none"]
        delay == SvgDelay(dot, w, h, anim)
        duration == SvgDuration(dot, w, h, anim)
        groupStyle ==
            IF a.organicPulse
            THEN [animationDuration |-> ToFixed(duration, 2),
                  animationDelay |-> ToFixed(delay, 2)]
            ELSE [animationDuration |-> "none"]
        char == IF s.dotShape = "plus" THEN <<"+">>
                ELSE IF s.customCharacter # << >> THEN s.customCharacter
                ELSE <<"*">>
        shape ==
            CASE s.dotShape = "round" ->
                    [tag |-> "circle", cx |-> ToFixed(dot.x, 2),
                     cy |-> ToFixed(dot.y, 2), r |-> ToFixed(dot.size, 2),
                     fill |-> fillAttr]
              [] s.dotShape = "square" ->
                    [tag |-> "rect", x |-> ToFixed(RSub(dot.x, dot.size), 2),
                     y |-> ToFixed(RSub(dot.y, dot.size), 2),
                     width |-> ToFixed(RMul(dot.size, RInt(2)), 2),
                     height |-> ToFixed(RMul(dot.size, RInt(2)), 2),
                     fill |-> fillAttr, transform |-> transformAttr]
              [] s.dotShape \in {"plus", "custom"} ->
                    [tag |-> "text", x |-> ToFixed(dot.x, 2),
                     y |-> ToFixed(dot.y, 2),
                     fontSize |-> ToFixed(RMul(dot.size, RInt(3)), 2),
                     fill |-> fillAttr, transform |-> transformAttr,
                     text |-> EscapeChar(char)]
    IN  [kind |-> "g", class |-> "ht-dot", dataX |-> ToFixed(dot.x, 2),
         dataY |-> ToFixed(dot.y, 2), style |-> groupStyle, child |-> shape]

\* dots.forEach: one element for each visible dot, in dot order
SvgElements(ds, w, h, s, anim) ==
    LET shown == SelectSeq(ds, IsVisible)
    IN  [j \in 1..Len(shown) |-> SvgElement(shown[j], w, h, s, anim)]

\* a faulty variant: an empty dot field is rendered like any other
generateSvgStringOfAnyField(ds, w, h, s, anim) ==
    <<[kind |-> "svg", width |-> w, height |-> h, viewBox |-> <<0, 0, w, h>>],
      SvgDefs(s, anim)>>
    \o SvgElements(ds, w, h, s, anim)
    \o <<[kind |-> "/svg"]>>

\* the returned string, as the sequence of its parts; "" is the empty sequence
generateSvgString(ds, w, h, s, anim) ==
    IF Len(ds) = 0 THEN << >>
    ELSE <<[kind |-> "svg", width |-> w, height |-> h, viewBox |-> <<0, 0, w, h>>],
           SvgDefs(s, anim)>>
         \o SvgElements(ds, w, h, s, anim)
         \o <<[kind |-> "/svg"]>>

\* the layer cap of the animated export
maxDots == 200

\* a faulty variant: the stride is rounded down
SampleStrideFloor(n) == IF n \div maxDots < 1 THEN 1 ELSE n \div maxDots

\* Math.ceil(filteredDots.length / maxDots)
SampleStride(n) == Ceil(R(n, maxDots))

\* a faulty variant: the sample starts at the last index of each stride
SampleDotsFromStrideEnd(filteredDots) ==
    IF Len(filteredDots) > maxDots
    THEN LET stride == SampleStride(Len(filteredDots))
             kept == SelectSeq([i \in 1..Len(filteredDots) |-> i - 1],
                               LAMBDA i : i % stride = stride - 1)
         IN  [j \in 1..Len(kept) |-> filteredDots[kept[j] + 1]]
    ELSE filteredDots

\* filteredDots, or its elements at the indices i with i % stride = 0
SampleDots(filteredDots) ==
    IF Len(filteredDots) > maxDots
    THEN LET stride == SampleStride(Len(filteredDots))
             kept == SelectSeq([i \in 1..Len(filteredDots) |-> i - 1],
                               LAMBDA i : i % stride = 0)
         IN  [j \in 1..Len(kept) |-> filteredDots[kept[j] + 1]]
    ELSE filteredDots

\* a faulty variant: the end frame is rounded to the nearest frame
LottieOutPointRounded(anim) ==
    Round(RMul(RDiv(RInt(8), LottieClampedTempo(anim)), RInt(60)))

\* outPoint = Math.ceil((8 / clampedTempo) * 60)
LottieOutPoint(anim) ==
    Ceil(RMul(RDiv(RInt(8), LottieClampedTempo(anim)), RInt(60)))

\* createKeyframe(frame, value, endValue)
createKeyframe(frame, value, endValue) ==
    [i |-> [x |-> R(833, 1000), y |-> R(833, 1000)],
     o |-> [x |-> R(167, 1000), y |-> R(167, 1000)],
     t |-> frame, s |-> value, e |-> endValue]

\* a faulty variant: a single keyframe is flattened to a static property
createAnimatedPropertyFlattened(keyframes, defaultValue) ==
    IF Len(keyframes) <= 1 THEN [a |-> 0, k |-> defaultValue]
    ELSE [a |-> 1, k |-> keyframes]

\* createAnimatedProperty(keyframes, defaultValue)
createAnimatedProperty(keyframes, defaultValue) ==
    IF Len(keyframes) = 0 THEN defaultValue
    ELSE [a |-> 1, k |-> keyframes]

createStaticProperty(value) == [a |-> 0, k |-> value]

\* a faulty variant: the fill takes the channels of the dot's colour
LottieRgbOfDot(dot) ==
    LET c == hexToRgb(dot.color)
    IN  IF c = Null THEN <<0, 0, 0>> ELSE <<c.r, c.g, c.b>>

\* rgb = [0, 0, 0]: the fill of a dot's layer, black whatever the dot's colour
LottieRgb(dot) == <<0, 0, 0>>

\* a faulty variant: the delay is capped at the end frame itself
LottieTimingLateDelay(dot, w, h, anim) ==
    LET clampedTempo == LottieClampedTempo(anim)
        outPoint == LottieOutPoint(anim)
        normX == RDiv(dot.x, RInt(w))
        normY == RDiv(dot.y, RInt(h))
        delaySeconds == RDiv(RMul(RAdd(normX, normY), RInt(4)), clampedTempo)
        durationSeconds == RDiv(RAdd(RInt(6), RMul(normX, RInt(2))), clampedTempo)
        delayFrames == Round(RMul(delaySeconds, RInt(60)))
        durationFrames == Round(RMul(durationSeconds, RInt(60)))
        clampedDelay == IF delayFrames < outPoint THEN delayFrames ELSE outPoint
        clampedDuration == IF durationFrames < outPoint - clampedDelay
                           THEN durationFrames ELSE outPoint - clampedDelay
        midRaw == clampedDelay + Round(R(clampedDuration, 2))
    IN  [delayFrames |-> delayFrames, durationFrames |-> durationFrames,
         clampedDelay |-> clampedDelay, clampedDuration |-> clampedDuration,
         midFrame |-> midRaw]

\* a faulty variant: the peak is put at the start of the pulse
LottieTimingPeakAtStart(dot, w, h, anim) ==
    LET clampedTempo == LottieClampedTempo(anim)
        outPoint == LottieOutPoint(anim)
        normX == RDiv(dot.x, RInt(w))
        normY == RDiv(dot.y, RInt(h))
        delaySeconds == RDiv(RMul(RAdd(normX, normY), RInt(4)), clampedTempo)
        durationSeconds == RDiv(RAdd(RInt(6), RMul(normX, RInt(2))), clampedTempo)
        delayFrames == Round(RMul(delaySeconds, RInt(60)))
        durationFrames == Round(RMul(durationSeconds, RInt(60)))
        clampedDelay == IF delayFrames < outPoint - 10 THEN delayFrames
                        ELSE outPoint - 10
        clampedDuration == IF durationFrames < outPoint - clampedDelay
                           THEN durationFrames ELSE outPoint - clampedDelay
    IN  [delayFrames |-> delayFrames, durationFrames |-> durationFrames,
         clampedDelay |-> clampedDelay, clampedDuration |-> clampedDuration,
         midFrame |-> IF clampedDelay < outPoint - 1 THEN clampedDelay
                      ELSE outPoint - 1]

\* the frame counts of a dot's pulse: the delay and duration at 60 fps, their
\* clamped values and the frame of the peak
LottieTiming(dot, w, h, anim) ==
    LET clampedTempo == LottieClampedTempo(anim)
        outPoint == LottieOutPoint(anim)
        normX == RDiv(dot.x, RInt(w))
        normY == RDiv(dot.y, RInt(h))
        delaySeconds == RDiv(RMul(RAdd(normX, normY), RInt(4)), clampedTempo)
        durationSeconds == RDiv(RAdd(RInt(6), RMul(normX, RInt(2))), clampedTempo)
        delayFrames == Round(RMul(delaySeconds, RInt(60)))
        durationFrames == Round(RMul(durationSeconds, RInt(60)))
        clampedDelay == IF delayFrames < outPoint - 10 THEN delayFrames
                        ELSE outPoint - 10
        clampedDuration == IF durationFrames < outPoint - clampedDelay
                           THEN durationFrames ELSE outPoint - clampedDelay
        midRaw == clampedDelay + Round(R(clampedDuration, 2))
    IN  [delayFrames |-> delayFrames, durationFrames |-> durationFrames,
         clampedDelay |-> clampedDelay, clampedDuration |-> clampedDuration,
         midFrame |-> IF midRaw < outPoint - 1 THEN midRaw ELSE outPoint - 1]

\* the layer of the sampled dot with 0-based index `index`
LottieLayer(dot, index, w, h, s, anim) ==
    LET a == AnimationOrDefaults(anim)
        maxScale == RAdd(RInt(1), LottieClampedPulse(anim))
        outPoint == LottieOutPoint(anim)
        midFrame == LottieTiming(dot, w, h, anim).midFrame
        peak == RMul(maxScale, RInt(100))
        full == RInt(100)
        scaleKeyframes ==
            IF a.organicPulse
            THEN <<createKeyframe(0, <<full, full>>, <<full, full>>),
                   createKeyframe(midFrame, <<peak, peak>>, <<peak, peak>>),
                   createKeyframe(outPoint, <<full, full>>, <<full, full>>)>>
            ELSE <<createKeyframe(0, <<full, full>>, <<full, full>>)>>
        opacityKeyframes ==
            IF a.organicPulse
            THEN <<createKeyframe(0, <<full>>, <<full>>),
                   createKeyframe(midFrame, <<full>>, <<full>>),
                   createKeyframe(outPoint, <<full>>, <<full>>)>>
            ELSE <<createKeyframe(0, <<full>>, <<full>>)>>
        rgb == LottieRgb(dot)
        rawDiameter == RMul(RMul(dot.size, RInt(2)), RInt(10))
        diameter == RMax(rawDiameter, RInt(5))
        shape == [ty |-> IF s.dotShape = "square" THEN "rc" ELSE "el",
                  p |-> createStaticProperty(<<0, 0>>),
                  s |-> createStaticProperty(<<diameter, diameter>>)]
        fill == [ty |-> "fl", o |-> createStaticProperty(100),
                 c |-> createStaticProperty(rgb)]
    IN  [ind |-> index + 1, ty |-> 4, nm |-> <<"Dot", index + 1>>,
         ks |-> [o |-> createAnimatedProperty(opacityKeyframes, <<full>>),
                 r |-> createStaticProperty(s.angle),
                 p |-> createStaticProperty(<<dot.x, dot.y, RInt(0)>>),
                 a |-> createStaticProperty(<<0, 0, 0>>),
                 s |-> createAnimatedProperty(scaleKeyframes, <<full, full, full>>)],
         shapes |-> <<[ty |-> "gr", it |-> <<shape, fill>>]>>,
         ip |-> 0, op |-> outPoint, st |-> 0]

\* a faulty variant: the sequence is left in its order
ReverseOmitted(seq) == seq

\* Array.prototype.reverse
Reverse(seq) == [j \in 1..Len(seq) |-> seq[Len(seq) + 1 - j]]

\* the animation document
generateLottieAnimation(ds, w, h, s, anim) ==
    LET filteredDots == SelectSeq(ds, IsVisible)
        sampledDots == SampleDots(filteredDots)
        layers == [j \in 1..Len(sampledDots) |->
                      LottieLayer(sampledDots[j], j - 1, w, h, s, anim)]
    IN  [v |-> "5.7.4", fr |-> 60, ip |-> 0, op |-> LottieOutPoint(anim),
         w |-> w, h |-> h, nm |-> "Halftone Animation", ddd |-> 0,
         assets |-> << >>,
         layers |-> Reverse(layers), markers |-> << >>]

-----------------------------------------------------------------------------
(* Live raster renderer: components/CanvasDisplay.tsx, useHalftone.drawCanvas *)

\* the pattern or colour assigned to ctx.fillStyle
CanvasFillStyle(dot, s) ==
    IF s.fillPattern = "solid" THEN dot.color
    ELSE <<"p", "a", "t", "t", "e", "r", "n">>

\* the calls on the 2D context for one dot: translate, rotate, and the shape
CanvasDrawDot(dot, s) ==
    LET char == IF s.dotShape = "plus" THEN <<"+">>
                ELSE IF s.customCharacter # << >> THEN s.customCharacter
                ELSE <<"*">>
        rotated == s.dotShape # "round" /\ s.angle # 0
    IN  [call |-> CASE s.dotShape = "round" -> "arc"
                    [] s.dotShape = "square" -> "rect"
                    [] s.dotShape \in {"plus", "custom"} -> "fillText",
         translate |-> <<dot.x, dot.y>>,
         rotate |-> IF rotated THEN s.angle ELSE 0,
         size |-> dot.size,
         text |-> IF s.dotShape \in {"plus", "custom"} THEN char ELSE << >>,
         fillStyle |-> CanvasFillStyle(dot, s)]

\* the calls issued on the surface: clearRect, then every dot in order
drawCanvas(ds, s) ==
    <<[call |-> "clearRect"]>> \o [j \in 1..Len(ds) |-> CanvasDrawDot(ds[j], s)]

-----------------------------------------------------------------------------
(* The caller's dot array after a renderer has returned.  Every renderer   *)
(* reads it with forEach, filter and map, which build new arrays; the one  *)
(* in-place operation, layers.reverse(), acts on the array built by map.   *)

\* generateSvgString: dots.forEach reads dot.x, dot.y, dot.size, dot.color
DotsAfterSvg(ds) == ds

\* a faulty variant: reverse() applied to the array that was passed in
DotsAfterLottieReversed(ds) == Reverse(ds)

\* generateLottieAnimation: dots.filter, filteredDots.filter, sampledDots.map
DotsAfterLottie(ds) == ds

\* drawCanvas: dots.forEach reads dot.x, dot.y, dot.size, dot.color
DotsAfterDraw(ds) == ds

-----------------------------------------------------------------------------
(* Inputs *)

White == <<"#", "f", "f", "f", "f", "f", "f">>
Black == <<"#", "0", "0", "0", "0", "0", "0">>

\* the initial settings of the application
DefaultSettings ==
    [resolution |-> 100, dotSize |-> RInt(1), dotShape |-> "round",
     imageBlur |-> 0, invert |-> FALSE, useGradient |-> FALSE,
     gradientDirection |-> "vertical", randomness |-> RInt(0),
     color1 |-> White, color2 |-> Black, customCharacter |-> <<"*">>,
     fillPattern |-> "solid", angle |-> 0]

ValidColors ==
    { White, Black,
      <<"#", "F", "F", "8", "0", "0", "0">>,
      <<"3", "3", "6", "6", "9", "9">>,
      <<"#", "0", "a", "1", "4", "1", "E">>,
      <<"#", "0", "1", "0", "2", "0", "3">> }

InvalidColors ==
    { << >>,
      <<"#">>,
      <<"#", "f", "f", "f">>,
      <<"r", "e", "d">>,
      <<"#", "g", "0", "0", "0", "0", "0">>,
      <<"#", "0", "0", "0", "0", "0", "0", "0">>,
      <<"#", "#", "0", "0", "0", "0", "0", "0">>,
      <<"0", "0", "0", "0", "0", "#">>,
      <<"#", "0", "0", "0", "0", "0", " ">> }

ColorInputs == ValidColors \cup InvalidColors

Amounts == { R(k, AmtDen) : k \in (-AmtDen)..(2 * AmtDen) } \cup {R(1, 2)}

\* RGBA pixels that tile the pixel buffer
Palettes ==
    { << <<255, 255, 255, 255>> >>,
      << <<0, 0, 0, 255>> >>,
      << <<255, 255, 255, 255>>, <<0, 0, 0, 255>>, <<255, 255, 254, 255>>,
         <<200, 100, 50, 255>>, <<0, 0, 1, 0>> >> }

\* a packed RGBA buffer of length w * h * 4
PixelBuffer(palette, w, h) ==
    [i \in 1..(w * h * 4) |->
        palette[(((i - 1) \div 4) % Len(palette)) + 1][((i - 1) % 4) + 1]]

NoAnimationSettings == [supplied |-> FALSE]

\* imageSrc = null and imageElementRef.current = null
NoImage == "null"
\* clickAnimationFrameRef.current = null
NoFrame == 0

\* values of the variables an operation does not use
IdleColor ==
    /\ hexA = White /\ hexB = Black /\ amount = RInt(0) /\ lerpResult = << >>
IdleGenerator ==
    /\ pixelData = << >> /\ prevDots = << >> /\ calls = 0
IdleRecolored ==
    /\ recolored = [dots |-> << >>, settings |-> DefaultSettings]
    /\ lottieRecolored = [layers |-> << >>]
IdleHook ==
    /\ imageSrc = NoImage /\ imageElementRef = NoImage
    /\ loads = {} /\ nextLoad = 1
IdleClick ==
    /\ now = 0 /\ lastClickTsRef = 0 /\ clickAnimationFrameRef = NoFrame
    /\ frames = {} /\ nextFrame = 1
    /\ clickWaveEnabledRef = FALSE /\ clickPulses = 0 /\ mounted = TRUE
IdleRenderers ==
    /\ IdleHook /\ IdleClick
    /\ animationSettings = NoAnimationSettings
    /\ svgString = << >> /\ lottie = [layers |-> << >>]
    /\ surface = [present |-> TRUE, calls |-> << >>]
    /\ IdleRecolored

-----------------------------------------------------------------------------
(* The colour interpolator called on its own *)

InitColor ==
    /\ hexA \in ColorInputs
    /\ hexB \in ColorInputs
    /\ amount \in Amounts
    /\ lerpResult = << >>
    /\ width = 1 /\ height = 1 /\ settings = DefaultSettings /\ dots = << >>
    /\ IdleGenerator /\ IdleRenderers
    /\ done = {}

LerpColor ==
    /\ lerpResult' = lerpColor(hexA, hexB, amount)
    /\ done' = done \cup {"lerpColor"}
    /\ UNCHANGED <<hookVars, clickVars>>
    /\ UNCHANGED <<hexA, hexB, amount, pixelData, width, height, settings,
                   dots, prevDots, calls, animationSettings, svgString,
                   lottie, surface, recolored, lottieRecolored>>

NextColor == LerpColor

SpecColor == InitColor /\ [][NextColor]_vars

-----------------------------------------------------------------------------
(* The dot field generator called on a pixel buffer *)

\* Settings and pixels that decide the sizes (dotSize, invert and the pixel
\* values) vary together, and so do those that decide positions and colours
\* (randomness and the gradient); a dot's size does not depend on the latter
\* nor its position and colour on the former.
SizeInputs ==
    { [settings |-> [DefaultSettings EXCEPT !.dotSize = ds, !.invert = inv],
       palette |-> palette] :
        ds \in {RInt(0), R(1, 2), RInt(2)}, inv \in BOOLEAN,
        palette \in Palettes }

PlacementInputs ==
    { [settings |-> [DefaultSettings EXCEPT
                        !.randomness = rnd,
                        !.useGradient = (grad # "none"),
                        !.gradientDirection =
                            IF grad = "none" THEN "vertical" ELSE grad],
       palette |-> palette] :
        rnd \in {RInt(0), R(1, 2), RInt(1)},
        grad \in {"none", "vertical", "horizontal"},
        palette \in {p \in Palettes : Len(p) > 1} }

\* gradients from every valid colour to white, to black and to a colour
\* written without "#", and every valid colour as the single colour, without
\* jitter, on a uniform image
GradientInputs ==
    { [settings |-> [DefaultSettings EXCEPT
                        !.color1 = c1, !.color2 = c2, !.useGradient = TRUE,
                        !.gradientDirection = grad],
       palette |-> << <<255, 255, 255, 255>> >>] :
        c1 \in ValidColors, c2 \in {White, Black, <<"3", "3", "6", "6", "9", "9">>},
        grad \in {"vertical", "horizontal"} }
    \cup
    { [settings |-> [DefaultSettings EXCEPT !.color1 = c1],
       palette |-> << <<255, 255, 255, 255>> >>] : c1 \in ValidColors }

\* a 100 x 50 image at 10 columns, with the default colours as a gradient
ExampleImages ==
    { [width |-> 100, height |-> 50,
       settings |-> [DefaultSettings EXCEPT
                        !.resolution = 10, !.useGradient = TRUE,
                        !.gradientDirection = grad],
       palette |-> << <<255, 255, 255, 255>>, <<0, 0, 0, 255>>,
                      <<200, 100, 50, 255>> >>] :
        grad \in {"vertical", "horizontal"} }

InitGen ==
    /\ \/ /\ width \in 1..MaxDim
          /\ height \in 1..MaxDim
          /\ \E res \in 1..MaxRes,
                in \in SizeInputs \cup PlacementInputs \cup GradientInputs :
                /\ settings = [in.settings EXCEPT !.resolution = res]
                /\ pixelData = PixelBuffer(in.palette, width, height)
       \/ \E in \in ExampleImages :
             /\ width = in.width
             /\ height = in.height
             /\ settings = in.settings
             /\ pixelData = PixelBuffer(in.palette, width, height)
    /\ dots = << >> /\ prevDots = << >> /\ calls = 0
    /\ IdleColor /\ IdleRenderers
    /\ done = {}

\* one call of generateDotsData; the last two results are kept
Generate ==
    \E seed \in 0..MaxSeed :
        /\ dots' = generateDotsData(pixelData, width, height, settings, seed)
        /\ prevDots' = dots
        /\ calls' = IF calls < 2 THEN calls + 1 ELSE calls
        /\ done' = done \cup {"generateDotsData"}
        /\ UNCHANGED <<hookVars, clickVars>>
        /\ UNCHANGED <<hexA, hexB, amount, lerpResult, pixelData, width,
                       height, settings, animationSettings, svgString,
                       lottie, surface, recolored, lottieRecolored>>

NextGen == Generate

SpecGen == InitGen /\ [][NextGen]_vars

-----------------------------------------------------------------------------
(* The three renderers called on a dot field *)

\* sizes that tile a dot field: all visible, all at the 0.1 threshold, mixed
SizeCycles ==
    { <<R(3, 2)>>,
      <<R(1, 10)>>,
      <<R(3, 2), R(1, 10), RInt(0), R(11, 100), R(1, 20)>> }

\* a dot field of n dots inside the w x h canvas, its edges included
MakeDots(n, cycle, w, h) ==
    [i \in 1..n |->
        [x |-> R((3 * i) % (2 * w + 1), 2),
         y |-> R((5 * i + 1) % (2 * h + 1), 2),
         size |-> cycle[((i - 1) % Len(cycle)) + 1],
         color |-> IF i % 2 = 1 THEN White ELSE Black]]

SmallFields(w, h) ==
    { MakeDots(n, cycle, w, h) : n \in 0..MaxSmallField, cycle \in SizeCycles }

BigFields(w, h) ==
    { MakeDots(k * maxDots + j, cycle, w, h) :
        k \in 1..MaxStride, j \in (-1)..MaxBigExtra, cycle \in SizeCycles }

CustomCharacters ==
    { <<"*">>, << >>, <<"<", "&", ">">>, <<"a", "&", "a", "m", "p", ";">>,
      <<"&">>, <<"&", "l", "t", ";">>, <<">", ">", "<">>,
      <<"<", "/", "t", "e", "x", "t", ">">> }

AppearanceSettings ==
    { [DefaultSettings EXCEPT !.dotShape = shape, !.fillPattern = fill,
                              !.angle = angle] :
        shape \in {"round", "square", "plus", "custom"},
        fill \in {"solid", "stripes", "checkerboard"},
        angle \in {0, 45} }
    \cup
    { [DefaultSettings EXCEPT !.dotShape = "custom", !.customCharacter = char] :
        char \in CustomCharacters }

PulseStrengths == { R(-1, 10), RInt(0), R(2, 25), R(7, 20), R(1, 2) }
PulseTempos == { RInt(-1), RInt(0), R(1, 8), R(1, 4), R(9, 10), RInt(1),
                 RInt(3), RInt(4) }

SuppliedAnimationSettings ==
    { [supplied |-> TRUE, organicPulse |-> pulse, pulseStrength |-> strength,
       pulseTempo |-> tempo] :
        pulse \in BOOLEAN, strength \in PulseStrengths, tempo \in PulseTempos }

PulseOff ==
    [supplied |-> TRUE, organicPulse |-> FALSE, pulseStrength |-> R(2, 25),
     pulseTempo |-> RInt(1)]

\* Appearance and timing vary separately on small fields; large fields are
\* rendered with the default appearance.
RenderInputs(w, h) ==
    { [dots |-> f, settings |-> s, anim |-> a, canvas |-> TRUE] :
        f \in SmallFields(w, h), s \in AppearanceSettings,
        a \in {NoAnimationSettings, PulseOff} }
    \cup
    { [dots |-> f, settings |-> DefaultSettings, anim |-> a, canvas |-> TRUE] :
        f \in SmallFields(w, h), a \in SuppliedAnimationSettings }
    \cup
    { [dots |-> f, settings |-> DefaultSettings, anim |-> NoAnimationSettings,
       canvas |-> TRUE] : f \in BigFields(w, h) }
    \cup
    { [dots |-> f, settings |-> DefaultSettings,
       anim |-> NoAnimationSettings, canvas |-> FALSE] :
        f \in SmallFields(w, h) }

InitRender ==
    /\ width = 2 * MaxDim
    /\ height = MaxDim
    /\ \E in \in RenderInputs(width, height) :
          /\ dots = in.dots
          /\ settings = in.settings
          /\ animationSettings = in.anim
          /\ surface = [present |-> in.canvas, calls |-> << >>]
    /\ svgString = << >> /\ lottie = [layers |-> << >>]
    /\ IdleColor /\ IdleGenerator /\ IdleRecolored
    /\ IdleHook /\ IdleClick
    /\ done = {}

GenerateSvg ==
    /\ svgString' = generateSvgString(dots, width, height, settings,
                                      animationSettings)
    /\ dots' = DotsAfterSvg(dots)
    /\ done' = done \cup {"generateSvgString"}
    /\ UNCHANGED <<hookVars, clickVars>>
    /\ UNCHANGED <<hexA, hexB, amount, lerpResult, pixelData, width, height,
                   settings, prevDots, calls, animationSettings, lottie,
                   surface, recolored, lottieRecolored>>

GenerateLottie ==
    /\ lottie' = generateLottieAnimation(dots, width, height, settings,
                                         animationSettings)
    /\ dots' = DotsAfterLottie(dots)
    /\ done' = done \cup {"generateLottieAnimation"}
    /\ UNCHANGED <<hookVars, clickVars>>
    /\ UNCHANGED <<hexA, hexB, amount, lerpResult, pixelData, width, height,
                   settings, prevDots, calls, animationSettings,
                   svgString, surface, recolored, lottieRecolored>>

\* drawCanvas returns at once when there is no canvas or no 2D context
DrawCanvas ==
    /\ surface' = IF surface.present
                  THEN [surface EXCEPT !.calls = drawCanvas(dots, settings)]
                  ELSE surface
    /\ dots' = DotsAfterDraw(dots)
    /\ done' = done \cup {"drawCanvas"}
    /\ UNCHANGED <<hookVars, clickVars>>
    /\ UNCHANGED <<hexA, hexB, amount, lerpResult, pixelData, width, height,
                   settings, prevDots, calls, animationSettings,
                   svgString, lottie, recolored, lottieRecolored>>

NextRender == GenerateSvg \/ GenerateLottie \/ DrawCanvas

SpecRender == InitRender /\ [][NextRender]_vars

-----------------------------------------------------------------------------
(* The animated export called twice, on inputs that differ only in colour *)

Orange == <<"#", "F", "F", "8", "0", "0", "0">>

\* the colour fields of the settings
ColorChoices ==
    { [color1 |-> White, color2 |-> Black, useGradient |-> FALSE,
       gradientDirection |-> "vertical", fillPattern |-> "solid"],
      [color1 |-> Black, color2 |-> White, useGradient |-> TRUE,
       gradientDirection |-> "horizontal", fillPattern |-> "stripes"],
      [color1 |-> Orange, color2 |-> Black, useGradient |-> TRUE,
       gradientDirection |-> "vertical", fillPattern |-> "checkerboard"],
      [color1 |-> <<"r", "e", "d">>, color2 |-> Orange, useGradient |-> FALSE,
       gradientDirection |-> "horizontal", fillPattern |-> "solid"] }

WithColorChoice(s, cs) ==
    [s EXCEPT !.color1 = cs.color1, !.color2 = cs.color2,
              !.useGradient = cs.useGradient,
              !.gradientDirection = cs.gradientDirection,
              !.fillPattern = cs.fillPattern]

\* the ways the dots' colours change: not at all, all to color1, or to
\* color2 and color1 in turn
ColorPatterns == {"keep", "single", "alternate"}

\* the dot field with other colours and the same positions and sizes
RecolorDots(ds, pattern, cs) ==
    [i \in 1..Len(ds) |->
        [ds[i] EXCEPT !.color =
            CASE pattern = "keep" -> ds[i].color
              [] pattern = "single" -> cs.color1
              [] pattern = "alternate" ->
                     IF i % 2 = 1 THEN cs.color2 ELSE cs.color1]]

ExportSettings ==
    { [DefaultSettings EXCEPT !.dotShape = shape, !.angle = angle] :
        shape \in {"round", "square", "custom"}, angle \in {0, 45} }

ExportAnimationSettings ==
    { NoAnimationSettings, PulseOff,
      [supplied |-> TRUE, organicPulse |-> TRUE, pulseStrength |-> R(7, 20),
       pulseTempo |-> RInt(3)] }

InitTwoExports ==
    /\ width = 2 * MaxDim
    /\ height = MaxDim
    /\ \E f \in SmallFields(width, height), s \in ExportSettings,
          a \in ExportAnimationSettings, cs \in ColorChoices,
          pattern \in ColorPatterns :
          /\ dots = f
          /\ settings = s
          /\ animationSettings = a
          /\ recolored = [dots |-> RecolorDots(f, pattern, cs),
                          settings |-> WithColorChoice(s, cs)]
    /\ lottie = [layers |-> << >>] /\ lottieRecolored = [layers |-> << >>]
    /\ svgString = << >> /\ surface = [present |-> TRUE, calls |-> << >>]
    /\ IdleColor /\ IdleGenerator
    /\ IdleHook /\ IdleClick
    /\ done = {}

\* generateLottieAnimation called on the recoloured dots and settings
GenerateLottieRecolored ==
    /\ lottieRecolored' = generateLottieAnimation(recolored.dots, width, height,
                                                  recolored.settings,
                                                  animationSettings)
    /\ done' = done \cup {"generateLottieAnimation, recolored"}
    /\ UNCHANGED <<hookVars, clickVars>>
    /\ UNCHANGED <<hexA, hexB, amount, lerpResult, pixelData, width, height,
                   settings, dots, prevDots, calls, animationSettings,
                   svgString, lottie, surface, recolored>>

NextTwoExports == GenerateLottie \/ GenerateLottieRecolored

SpecTwoExports == InitTwoExports /\ [][NextTwoExports]_vars

-----------------------------------------------------------------------------
(* The live hook: components/CanvasDisplay.tsx, useHalftone.  dotsRef is    *)
(* dots, canvasSizeRef is width and height, the canvas is surface.  A       *)
(* render with changed settings gives new identities to the callbacks that  *)
(* depend on them, and an effect runs again when one of its dependencies    *)
(* has changed; the effects of one render run in the order they are         *)
(* declared.  An image that is loading holds the callbacks of the render    *)
(* that started it.  The images have the size of the canvas they are given, *)
(* so that drawImage does not rescale them, and imageBlur stays 0.          *)

\* the bound on the image loads started
MaxLoads == 2

\* the images a source can name: their size and their pixels
ImageSources == {"A", "B"}
ImageFile(src) ==
    IF src = "A"
    THEN [width |-> 2, height |-> 2,
          palette |-> << <<255, 255, 255, 255>>, <<0, 0, 0, 255>>,
                         <<200, 100, 50, 255>> >>]
    ELSE [width |-> 1, height |-> 2,
          palette |-> << <<200, 100, 50, 255>>, <<255, 255, 255, 255>> >>]

\* canvas.parentElement: clientWidth and clientHeight
Parent == [clientWidth |-> 2, clientHeight |-> 2]

\* img.onload: the canvas size that fits the parent at the image's aspect ratio
OnloadCanvasSize(img) ==
    LET aspectRatio == R(img.width, img.height)
        parentWidth == IF Parent.clientWidth # 0 THEN Parent.clientWidth ELSE 512
        maxHeight == IF Parent.clientHeight # 0 THEN Parent.clientHeight ELSE 512
        fitWidth == RDiv(RInt(parentWidth), aspectRatio)
        canvasHeight == IF RLt(RInt(maxHeight), fitWidth) THEN RInt(maxHeight)
                        ELSE fitWidth
        canvasWidth == IF RLt(RInt(maxHeight), fitWidth)
                       THEN RMul(RInt(maxHeight), aspectRatio)
                       ELSE RInt(parentWidth)
    IN  [width |-> Floor(canvasWidth), height |-> Floor(canvasHeight)]

\* computeDotColor(x, y): reads canvasSizeRef
computeDotColor(s, size, x, y) ==
    IF s.useGradient /\ size.width # 0 /\ size.height # 0
    THEN lerpColor(s.color1, s.color2,
                   IF s.gradientDirection = "vertical"
                   THEN RDiv(y, RInt(size.height))
                   ELSE RDiv(x, RInt(size.width)))
    ELSE s.color1

\* useHalftone.generateDotsData(img) for the settings s of the render that
\* made the callback
HookGenerateDotsData(img, size, s, seed) ==
    LET canvasWidth == IF size.width # 0 THEN size.width ELSE img.width
        canvasHeight == IF size.height # 0 THEN size.height ELSE img.height
        data == PixelBuffer(img.palette, canvasWidth, canvasHeight)
        cols == IF s.resolution < 1 THEN 1 ELSE s.resolution
        rounded == GridRows(cols, canvasWidth, canvasHeight)
        rows == IF rounded < 1 THEN 1 ELSE rounded
        cellWidth == R(canvasWidth, cols)
        cellHeight == R(canvasHeight, rows)
        dot(r, c) ==
            LET x == RMul(RInt(c), cellWidth)
                y == RMul(RInt(r), cellHeight)
                sampleX == SamplePoint(x, cellWidth)
                sampleY == SamplePoint(y, cellHeight)
                pixelIndex == (sampleY * canvasWidth + sampleX) * 4
                luminance == Luminance(PixelAt(data, pixelIndex),
                                       PixelAt(data, pixelIndex + 1),
                                       PixelAt(data, pixelIndex + 2), s.invert)
                baseSize == BaseSize(cellWidth, cellHeight, s.dotSize)
                k == r * cols + c
                randX == Jitter(Random(seed, 2 * k), s.randomness, cellWidth)
                randY == Jitter(Random(seed, 2 * k + 1), s.randomness, cellHeight)
                centerX == RAdd(RAdd(x, RDiv(cellWidth, RInt(2))), randX)
                centerY == RAdd(RAdd(y, RDiv(cellHeight, RInt(2))), randY)
            IN  [x |-> centerX, y |-> centerY,
                 size |-> IF luminance = NaN THEN NaN
                          ELSE RMul(baseSize, luminance),
                 color |-> computeDotColor(s, size, centerX, centerY)]
    IN  [k \in 1..(rows * cols) |-> dot((k - 1) \div cols, (k - 1) % cols)]

\* recolorDots: every dot with the colour of its own position
recolorDots(ds, s, size) ==
    [i \in 1..Len(ds) |->
        [ds[i] EXCEPT !.color = computeDotColor(s, size, ds[i].x, ds[i].y)]]

\* the settings the application switches between
HookSettings ==
    LET base == [DefaultSettings EXCEPT !.resolution = 2, !.randomness = R(1, 2)]
    IN  { base,
          [base EXCEPT !.color1 = Black],
          [base EXCEPT !.useGradient = TRUE],
          [base EXCEPT !.randomness = RInt(0)] }

\* the fields a callback or an effect depends on
ColorFields == {"useGradient", "gradientDirection", "color1", "color2"}
SamplingFields == {"resolution", "dotSize", "imageBlur", "invert", "randomness"}
DrawFields == {"dotShape", "customCharacter", "fillPattern", "color1", "color2",
               "angle"}
VisualFields == {"dotShape", "fillPattern", "customCharacter", "angle"}
Changed(old, new, fields) == \E f \in fields : old[f] # new[f]

\* the mounted hook without a source: the image loading effect has cleared
\* the dots and the image
InitHook ==
    /\ settings \in HookSettings
    /\ imageSrc = NoImage /\ imageElementRef = NoImage
    /\ loads = {} /\ nextLoad = 1
    /\ dots = << >> /\ width = 0 /\ height = 0
    /\ surface = [present |-> TRUE, calls |-> <<[call |-> "clearRect"]>>]
    /\ animationSettings = NoAnimationSettings
    /\ svgString = << >> /\ lottie = [layers |-> << >>]
    /\ IdleColor /\ IdleGenerator /\ IdleRecolored /\ IdleClick
    /\ done = {}

\* the image loading effect, run for the source src by a render with the
\* settings s, on the hook state st
ImageLoadingEffect(st, src, s) ==
    IF src = NoImage
    THEN [st EXCEPT !.dots = << >>, !.image = NoImage,
                    !.calls = <<[call |-> "clearRect"]>>]
    ELSE [st EXCEPT !.loads = @ \cup {[id |-> nextLoad, src |-> src, settings |-> s]},
                    !.started = TRUE]

\* regenerateDots of a render with the settings s
RegenerateDots(st, s, size, seed) ==
    IF st.image = NoImage THEN st
    ELSE LET ds == HookGenerateDotsData(ImageFile(st.image), size, s, seed)
         IN  [st EXCEPT !.dots = ds, !.calls = drawCanvas(ds, s)]

\* the recolor effect and the visual effect
RecolorEffect(st, s, size) ==
    IF Len(st.dots) = 0 THEN st
    ELSE LET ds == recolorDots(st.dots, s, size)
         IN  [st EXCEPT !.dots = ds, !.calls = drawCanvas(ds, s)]
VisualEffect(st, s) ==
    IF Len(st.dots) = 0 THEN st
    ELSE [st EXCEPT !.calls = drawCanvas(st.dots, s)]

HookState ==
    [dots |-> dots, image |-> imageElementRef, loads |-> loads,
     calls |-> surface.calls, started |-> FALSE]

\* the hook state becomes st
InstallHookState(st) ==
    /\ dots' = st.dots
    /\ imageElementRef' = st.image
    /\ loads' = st.loads
    /\ nextLoad' = IF st.started THEN nextLoad + 1 ELSE nextLoad
    /\ surface' = [surface EXCEPT !.calls = st.calls]

\* the application passes another source: the image loading effect runs
SetImageSrc ==
    \E src \in ImageSources \cup {NoImage} :
        /\ src # imageSrc
        /\ src # NoImage => nextLoad <= MaxLoads
        /\ imageSrc' = src
        /\ InstallHookState(ImageLoadingEffect(HookState, src, settings))
        /\ done' = done \cup {"setImageSrc"}
        /\ UNCHANGED <<hexA, hexB, amount, lerpResult, pixelData, width, height,
                       settings, prevDots, calls, animationSettings, svgString,
                       lottie, recolored, lottieRecolored>>
        /\ UNCHANGED clickVars

\* the application passes other settings: the effects whose dependencies
\* have changed run in the order of their declaration
ChangeSettings ==
    \E new \in HookSettings, seed \in 0..MaxSeed :
        LET size == [width |-> width, height |-> height]
            computeDotColorChanged == Changed(settings, new, ColorFields)
            generateDotsDataChanged ==
                Changed(settings, new, SamplingFields) \/ computeDotColorChanged
            drawCanvasChanged == Changed(settings, new, DrawFields)
            regenerateDotsChanged == drawCanvasChanged \/ generateDotsDataChanged
            recolorDotsChanged == computeDotColorChanged
            st0 == HookState
            st1 == IF regenerateDotsChanged
                   THEN ImageLoadingEffect(st0, imageSrc, new) ELSE st0
            st2 == IF Changed(settings, new, SamplingFields) \/ regenerateDotsChanged
                   THEN RegenerateDots(st1, new, size, seed) ELSE st1
            st3 == IF recolorDotsChanged \/ drawCanvasChanged
                      \/ Changed(settings, new, ColorFields)
                   THEN RecolorEffect(st2, new, size) ELSE st2
            st4 == IF drawCanvasChanged \/ Changed(settings, new, VisualFields)
                   THEN VisualEffect(st3, new) ELSE st3
        IN  /\ new # settings
            /\ imageSrc # NoImage => nextLoad <= MaxLoads
            /\ settings' = new
            /\ InstallHookState(st4)
            /\ done' = done \cup {"changeSettings"}
            /\ UNCHANGED <<hexA, hexB, amount, lerpResult, pixelData, width,
                           height, prevDots, calls, animationSettings,
                           svgString, lottie, recolored, lottieRecolored,
                           imageSrc>>
            /\ UNCHANGED clickVars

\* img.onload of an image that was loading, whatever the source has become
\* since (the effect has no cleanup): the canvas takes the size of the
\* image, the image is installed and regenerateDots of the render that
\* started the load runs
ImageLoaded ==
    \E load \in loads, seed \in 0..MaxSeed :
        LET size == OnloadCanvasSize(ImageFile(load.src))
            st0 == [HookState EXCEPT !.loads = @ \ {load}]
            st1 == [st0 EXCEPT !.image = load.src]
        IN  /\ width' = size.width
            /\ height' = size.height
            /\ InstallHookState(RegenerateDots(st1, load.settings, size, seed))
            /\ done' = done \cup {"onload"}
            /\ UNCHANGED <<hexA, hexB, amount, lerpResult, pixelData, settings,
                           prevDots, calls, animationSettings, svgString,
                           lottie, recolored, lottieRecolored, imageSrc>>
            /\ UNCHANGED clickVars

NextHook == SetImageSrc \/ ChangeSettings \/ ImageLoaded

SpecHook == InitHook /\ [][NextHook]_vars

-----------------------------------------------------------------------------
(* The click pulse of the preview: CanvasDisplay, handleClickPulse and the  *)
(* cleanup on unmount.  Time is performance.now() in milliseconds; frames   *)
(* is the set of requestAnimationFrame callbacks the browser still holds.   *)

\* the bound on the clock, in milliseconds
MaxTime == 300
\* the bound on the animation frames requested
MaxFrames == 3

\* the minimum time between two accepted clicks, in milliseconds
ClickThrottleMs == 100

\* the time between two events, in milliseconds
ClickGaps == {1, 50, 99, 100}

\* what a click finds: no container, no svg in it, an svg without extent,
\* no dot group, a ripple speed of 0, or all that the pulse needs
ClickConditions ==
    {"no container", "no svg", "empty rect", "no dot groups", "no ripple", "pulse"}

\* a faulty variant: the frame requested before is left pending
CancelAnimationFrameOmitted(pending, handle) == pending

\* cancelAnimationFrame(handle); a handle that is not pending is ignored
CancelAnimationFrame(pending, handle) == pending \ {handle}

InitClick ==
    /\ now = 0 /\ lastClickTsRef = 0 /\ clickAnimationFrameRef = NoFrame
    /\ frames = {} /\ nextFrame = 1
    /\ clickWaveEnabledRef = FALSE /\ clickPulses = 0 /\ mounted = TRUE
    /\ width = 1 /\ height = 1 /\ settings = DefaultSettings /\ dots = << >>
    /\ IdleColor /\ IdleGenerator /\ IdleHook /\ IdleRecolored
    /\ animationSettings = NoAnimationSettings
    /\ svgString = << >> /\ lottie = [layers |-> << >>]
    /\ surface = [present |-> TRUE, calls |-> << >>]
    /\ done = {}

\* handleClickPulse, called gap milliseconds after the event before
HandleClickPulse ==
    \E gap \in ClickGaps, found \in ClickConditions :
        LET at == now + gap
            accepted == found # "no container"
                        /\ ~(at - lastClickTsRef < ClickThrottleMs)
            requests == accepted /\ found = "pulse"
        IN  /\ mounted
            /\ at <= MaxTime
            /\ requests => nextFrame <= MaxFrames
            /\ now' = at
            /\ lastClickTsRef' = IF accepted THEN at ELSE lastClickTsRef
            /\ frames' =
                   LET kept == IF accepted /\ clickAnimationFrameRef # NoFrame
                               THEN CancelAnimationFrame(frames,
                                                         clickAnimationFrameRef)
                               ELSE frames
                   IN  IF requests THEN kept \cup {nextFrame} ELSE kept
            /\ clickAnimationFrameRef' =
                   IF requests THEN nextFrame ELSE clickAnimationFrameRef
            /\ nextFrame' = IF requests THEN nextFrame + 1 ELSE nextFrame
            /\ clickWaveEnabledRef' = (clickWaveEnabledRef \/ requests)
            /\ done' = IF accepted THEN done \cup {"click accepted"}
                       ELSE done \cup {"click dropped"}
            /\ UNCHANGED <<clickPulses, mounted>>
            /\ UNCHANGED hookVars
            /\ UNCHANGED <<hexA, hexB, amount, lerpResult, pixelData, width,
                           height, settings, dots, prevDots, calls,
                           animationSettings, svgString, lottie, surface,
                           recolored, lottieRecolored>>

\* the browser runs a pending frame callback: the pulse is applied to the
\* dot groups and the handle is forgotten
ClickFrameCallback ==
    \E frame \in frames :
        /\ frames' = frames \ {frame}
        /\ clickPulses' = clickPulses + 1
        /\ clickAnimationFrameRef' = NoFrame
        /\ done' = done \cup {"frame callback"}
        /\ UNCHANGED <<now, lastClickTsRef, nextFrame, clickWaveEnabledRef,
                       mounted>>
        /\ UNCHANGED hookVars
        /\ UNCHANGED <<hexA, hexB, amount, lerpResult, pixelData, width,
                       height, settings, dots, prevDots, calls,
                       animationSettings, svgString, lottie, surface,
                       recolored, lottieRecolored>>

\* the cleanup of the component on unmount
Unmount ==
    /\ mounted
    /\ mounted' = FALSE
    /\ frames' = IF clickAnimationFrameRef # NoFrame
                 THEN CancelAnimationFrame(frames, clickAnimationFrameRef)
                 ELSE frames
    /\ clickAnimationFrameRef' = NoFrame
    /\ done' = done \cup {"unmount"}
    /\ UNCHANGED <<now, lastClickTsRef, nextFrame, clickWaveEnabledRef,
                   clickPulses>>
    /\ UNCHANGED hookVars
    /\ UNCHANGED <<hexA, hexB, amount, lerpResult, pixelData, width, height,
                   settings, dots, prevDots, calls, animationSettings,
                   svgString, lottie, surface, recolored, lottieRecolored>>

NextClick == HandleClickPulse \/ ClickFrameCallback \/ Unmount

SpecClick == InitClick /\ [][NextClick]_vars

-----------------------------------------------------------------------------
(* Claims about the colour interpolator (SpecColor) *)

Lerped == "lerpColor" \in done

\* channel i (1 = R, 2 = G, 3 = B) of a string "#rrggbb"
ChannelOf(str, i) == 16 * HexCharValue(str[2 * i]) + HexCharValue(str[2 * i + 1])

\* round(a + (b - a) * t) with halves rounded up, for the clamped amount t
ExpectedChannel(a, b, amt) ==
    LET t == IF amt.n < 0 THEN RInt(0)
             ELSE IF amt.n > amt.d THEN RInt(1) ELSE amt
    IN  (2 * (a * t.d + (b - a) * t.n) + t.d) \div (2 * t.d)

Gray808080 == <<"#", "8", "0", "8", "0", "8", "0">>

\* C9: for valid colours A and B and any amount, lerpColor returns "#" and
\* six hex digits whose channels are round(A_c + (B_c - A_c) * clamp(amount,
\* 0, 1)), halves rounded up; so an amount <= 0 gives A's channels, an amount
\* >= 1 gives B's, and lerpColor("#000000", "#ffffff", 0.5) = "#808080".
C9_LerpChannels ==
    (Lerped /\ hexA \in ValidColors /\ hexB \in ValidColors) =>
        LET a == hexToRgb(hexA)
            b == hexToRgb(hexB)
        IN  /\ Len(lerpResult) = 7
            /\ lerpResult[1] = "#"
            /\ \A i \in 2..7 : IsHexChar(lerpResult[i])
            /\ ChannelOf(lerpResult, 1) = ExpectedChannel(a.r, b.r, amount)
            /\ ChannelOf(lerpResult, 2) = ExpectedChannel(a.g, b.g, amount)
            /\ ChannelOf(lerpResult, 3) = ExpectedChannel(a.b, b.b, amount)
            /\ amount.n <= 0 =>
                   /\ ChannelOf(lerpResult, 1) = a.r
                   /\ ChannelOf(lerpResult, 2) = a.g
                   /\ ChannelOf(lerpResult, 3) = a.b
            /\ amount.n >= amount.d =>
                   /\ ChannelOf(lerpResult, 1) = b.r
                   /\ ChannelOf(lerpResult, 2) = b.g
                   /\ ChannelOf(lerpResult, 3) = b.b
            /\ (hexA = Black /\ hexB = White /\ amount = R(1, 2)) =>
                   lerpResult = Gray808080

\* the example of C9 has run: black and white blended half-way
C9_Witness ==
    /\ Lerped /\ hexA = Black /\ hexB = White /\ amount = R(1, 2)
    /\ lerpResult = Gray808080

\* C10: if either colour argument is not a strict 6-hex-digit colour,
\* lerpColor returns its first argument unchanged, for every amount.
C10_FallbackToFirst ==
    (Lerped /\ (hexA \in InvalidColors \/ hexB \in InvalidColors)) =>
        lerpResult = hexA

\* a valid first colour and a malformed second one, at an amount that would
\* otherwise select the second colour
C10_Witness ==
    /\ Lerped /\ hexA = White /\ hexB = <<"#", "f", "f", "f">>
    /\ amount = RInt(1) /\ lerpResult = White

-----------------------------------------------------------------------------
(* Claims about the dot field generator (SpecGen) *)

Generated == "generateDotsData" \in done

\* the grid of the claims: cols, and rows floored at 1
ClaimedRows ==
    LET rows == (2 * settings.resolution * height + width) \div (2 * width)
    IN  IF rows < 1 THEN 1 ELSE rows

\* C1: for positive width and height and cols >= 1, generateDotsData returns
\* exactly rows * cols dots with rows = max(1, round(cols * height / width)),
\* also when round(cols * height / width) is 0.
C1_DotCount ==
    Generated => Len(dots) = ClaimedRows * settings.resolution

\* the pixel sampled for the dot with row-major index k (1-based), as
\* <<red, green, blue>>
SampledPixel(k) ==
    LET cols == settings.resolution
        rows == Len(dots) \div cols
        r == (k - 1) \div cols
        c == (k - 1) % cols
        sampleX == ((2 * c + 1) * width) \div (2 * cols)
        sampleY == ((2 * r + 1) * height) \div (2 * rows)
        i == (sampleY * width + sampleX) * 4
    IN  <<pixelData[i + 1], pixelData[i + 2], pixelData[i + 3]>>

\* (min(cellWidth, cellHeight) / 2) * dotSize for the grid of the dot field
ClaimedBaseSize ==
    LET cols == settings.resolution
        rows == Len(dots) \div cols
    IN  RMul(RMin(R(width, 2 * cols), R(height, 2 * rows)), settings.dotSize)

\* C2: every dot has 0 <= size <= baseSize, and when baseSize > 0 the size
\* equals baseSize only if the sampled pixel is pure white (invert off) or
\* pure black (invert on).
C2_SizeBounds ==
    Generated =>
        \A k \in 1..Len(dots) :
            /\ dots[k].size # NaN
            /\ RLe(RInt(0), dots[k].size)
            /\ RLe(dots[k].size, ClaimedBaseSize)
            /\ (RLt(RInt(0), ClaimedBaseSize) /\ dots[k].size = ClaimedBaseSize) =>
                   SampledPixel(k) = IF settings.invert THEN <<0, 0, 0>>
                                     ELSE <<255, 255, 255>>

\* a field with a dot of the full size and a smaller dot that is not empty
C2_Witness ==
    /\ Generated /\ Len(dots) > 1
    /\ RLt(RInt(0), ClaimedBaseSize)
    /\ \E k \in 1..Len(dots) : dots[k].size = ClaimedBaseSize
    /\ \E k \in 1..Len(dots) :
           RLt(RInt(0), dots[k].size) /\ RLt(dots[k].size, ClaimedBaseSize)

\* C3: two calls on the same buffer, dimensions and settings with
\* randomness = 0 return the same dot sequence, whatever the random source
\* returns in each call.
C3_DeterministicWithoutJitter ==
    (calls = 2 /\ settings.randomness = RInt(0)) => dots = prevDots

\* two calls without jitter on a gradient field of several dots
C3_Witness ==
    /\ calls = 2 /\ settings.randomness = RInt(0) /\ settings.useGradient
    /\ Len(dots) > 1 /\ dots = prevDots

\* the grid of the dot field: its columns and the rows that were visited
FieldCols == settings.resolution
FieldRows == Len(dots) \div settings.resolution

\* the dot of grid cell (r, c), and channel i (1 = R, 2 = G, 3 = B) of its
\* colour "#rrggbb"
DotAt(r, c) == dots[r * FieldCols + c + 1]
DotChannel(r, c, i) == ChannelOf(DotAt(r, c).color, i)

\* channel i of a settings colour, with or without the leading "#"
SettingChannel(str, i) ==
    LET body == IF str[1] = "#" THEN Tail(str) ELSE str
    IN  16 * HexCharValue(body[2 * i - 1]) + HexCharValue(body[2 * i])

\* v1 comes before v2 in the direction from channel a to channel b
InGradientOrder(a, b, v1, v2) == IF a <= b THEN v1 <= v2 ELSE v1 >= v2

\* C11: with useGradient = true, randomness = 0 and two valid colours, each
\* of the R, G, B channels of the dot colours is monotonic (non-decreasing if
\* color1's channel <= color2's, non-increasing otherwise) in the row index
\* for a vertical gradient and in the column index for a horizontal one, and
\* is constant along the other axis.
C11_GradientMonotonic ==
    (Generated /\ settings.useGradient /\ settings.randomness = RInt(0)) =>
        \A i \in 1..3 :
            LET a == SettingChannel(settings.color1, i)
                b == SettingChannel(settings.color2, i)
                v == [r \in 0..(FieldRows - 1) |->
                         [c \in 0..(FieldCols - 1) |-> DotChannel(r, c, i)]]
            IN  IF settings.gradientDirection = "vertical"
                THEN /\ \A c \in 0..(FieldCols - 1), r1, r2 \in 0..(FieldRows - 1) :
                           r1 <= r2 => InGradientOrder(a, b, v[r1][c], v[r2][c])
                     /\ \A r \in 0..(FieldRows - 1), c1, c2 \in 0..(FieldCols - 1) :
                           v[r][c1] = v[r][c2]
                ELSE /\ \A r \in 0..(FieldRows - 1), c1, c2 \in 0..(FieldCols - 1) :
                           c1 <= c2 => InGradientOrder(a, b, v[r][c1], v[r][c2])
                     /\ \A c \in 0..(FieldCols - 1), r1, r2 \in 0..(FieldRows - 1) :
                           v[r1][c] = v[r2][c]

\* a vertical gradient over several rows and columns whose red channel falls
\* and whose blue channel rises from the first row to the last
C11_Witness ==
    /\ Generated /\ settings.useGradient /\ settings.randomness = RInt(0)
    /\ settings.gradientDirection = "vertical"
    /\ FieldRows >= 3 /\ FieldCols >= 2
    /\ SettingChannel(settings.color1, 1) > SettingChannel(settings.color2, 1)
    /\ SettingChannel(settings.color1, 3) < SettingChannel(settings.color2, 3)
    /\ DotChannel(0, 0, 1) > DotChannel(FieldRows - 1, 0, 1)
    /\ DotChannel(0, 0, 3) < DotChannel(FieldRows - 1, 0, 3)
    /\ DotChannel(1, 0, 1) = DotChannel(1, 1, 1)

\* the colour "#rrggbb" at position p between color1 and color2, for
\* 0 <= p <= 1: channels round(a + (b - a) * p), halves rounded up
ExpectedGradientColor(p) ==
    [i \in 1..3 |-> ExpectedChannel(SettingChannel(settings.color1, i),
                                    SettingChannel(settings.color2, i), p)]

DotChannels(r, c) == [i \in 1..3 |-> DotChannel(r, c, i)]

C13_WhiteToBlackColumns ==
    (Generated /\ settings.useGradient
        /\ settings.gradientDirection = "horizontal"
        /\ settings.color1 = White /\ settings.color2 = Black) =>
        /\ \A r \in 0..(FieldRows - 1) : DotAt(r, 0).color = White
        /\ FieldCols >= 2 =>
               \A r1, r2 \in 0..(FieldRows - 1), i \in 1..3 :
                   DotChannel(r1, FieldCols - 1, i) < DotChannel(r2, 0, i)
        /\ (width = 100 /\ height = 50 /\ settings.resolution = 10) =>
               /\ Len(dots) = 50
               /\ \A r \in 0..4, c \in 0..9 :
                      /\ DotAt(r, c).x = [n |-> 10 * c + 5, d |-> 1]
                      /\ DotAt(r, c).y = [n |-> 10 * r + 5, d |-> 1]

DarkGray1a1a1a == <<"#", "1", "a", "1", "a", "1", "a">>

\* the 100 x 50 image at 10 columns: 50 dots, white in column 0 and the grey
\* of position 9/10 in column 9
C13_Witness ==
    /\ Generated /\ settings.useGradient
    /\ settings.gradientDirection = "horizontal"
    /\ settings.color1 = White /\ settings.color2 = Black
    /\ width = 100 /\ height = 50 /\ settings.resolution = 10
    /\ Len(dots) = 50
    /\ DotAt(0, 0).color = White /\ DotAt(4, 0).color = White
    /\ DotAt(4, 9).color = DarkGray1a1a1a

-----------------------------------------------------------------------------
(* Claims about the renderers (SpecRender) *)

SvgDone == "generateSvgString" \in done
LottieDone == "generateLottieAnimation" \in done
DrawDone == "drawCanvas" \in done

\* size > 0.1, on the dot's numerator and denominator
NonNegligible(dot) == 10 * dot.size.n > dot.size.d

\* the indices of the non-negligible dots, in increasing order
VisibleIndices ==
    SelectSeq([i \in 1..Len(dots) |-> i], LAMBDA i : NonNegligible(dots[i]))

\* the parts of the markup between the <defs> block and the closing tag
SvgGroups == SubSeq(svgString, 3, Len(svgString) - 1)

ShapeTags == {"circle", "rect", "text"}

ExpectedTag ==
    CASE settings.dotShape = "round" -> "circle"
      [] settings.dotShape = "square" -> "rect"
      [] OTHER -> "text"

\* C4: for a non-empty dot field and any dotShape, generateSvgString emits
\* exactly one shape element for each dot with size > 0.1, in dot order, and
\* none for a dot with size <= 0.1; the number of shape elements is the
\* number of dots with size > 0.1.
C4_OneShapePerVisibleDot ==
    (SvgDone /\ Len(dots) > 0) =>
        /\ Len(SvgGroups) = Len(VisibleIndices)
        /\ \A j \in 1..Len(SvgGroups) :
              LET dot == dots[VisibleIndices[j]]
              IN  /\ SvgGroups[j].kind = "g"
                  /\ SvgGroups[j].child.tag \in ShapeTags
                  /\ SvgGroups[j].child.tag = ExpectedTag
                  /\ SvgGroups[j].dataX = ToFixed(dot.x, 2)
                  /\ SvgGroups[j].dataY = ToFixed(dot.y, 2)
        /\ \A j \in 1..Len(svgString) :
              (j < 3 \/ j = Len(svgString)) => svgString[j].kind # "g"

\* a rendered field with a dot above the threshold, one exactly at it and
\* one below it
C4_Witness ==
    /\ SvgDone /\ Len(dots) = 3
    /\ \E i \in 1..Len(dots) : dots[i].size = R(1, 10)
    /\ \E i \in 1..Len(dots) : dots[i].size = RInt(0)
    /\ Len(SvgGroups) = 1
    /\ SvgGroups[1].child.tag = "rect"

\* C5: drawCanvas issues no drawing call (arc, rect or fillText) for a dot
\* with size <= 0.1.
C5_NoCallForNegligibleDot ==
    (DrawDone /\ surface.present) =>
        \A j \in 1..Len(surface.calls) :
            surface.calls[j].call \in {"arc", "rect", "fillText"} =>
                10 * surface.calls[j].size.n > surface.calls[j].size.d

\* C6: the document returned by generateLottieAnimation has at most 200
\* layers, for a dot field of any length.
C6_AtMost200Layers ==
    LottieDone => Len(lottie.layers) <= 200

\* more than 200 non-negligible dots, sampled down to exactly 200 layers
C6_Witness ==
    /\ LottieDone
    /\ Len(VisibleIndices) > 200
    /\ Len(lottie.layers) = 200

\* clamp(x, lo, hi) on rationals, by cross-multiplication
ExpectedClamp(x, lo, hi) ==
    IF x.n * lo.d < lo.n * x.d THEN lo
    ELSE IF x.n * hi.d > hi.n * x.d THEN hi ELSE x

\* pulseStrength and pulseTempo as passed, or their defaults 0.08 and 1
GivenPulseStrength ==
    IF animationSettings.supplied THEN animationSettings.pulseStrength
    ELSE [n |-> 2, d |-> 25]
GivenPulseTempo ==
    IF animationSettings.supplied THEN animationSettings.pulseTempo
    ELSE [n |-> 1, d |-> 1]
GivenOrganicPulse ==
    IF animationSettings.supplied THEN animationSettings.organicPulse ELSE TRUE

ExpectedPulse == ExpectedClamp(GivenPulseStrength, [n |-> 0, d |-> 1], [n |-> 7, d |-> 20])
ExpectedTempo == ExpectedClamp(GivenPulseTempo, [n |-> 1, d |-> 4], [n |-> 3, d |-> 1])

\* ceil((8 / tempo) * 60) for the clamped tempo
ExpectedOutPoint == -((-(480 * ExpectedTempo.d)) \div ExpectedTempo.n)

\* C7: for every pulseTempo (in range, out of range or omitted) the
\* document's op is ceil((8 / clamp(pulseTempo, 0.25, 3)) * 60), its ip is 0
\* and its fr is 60; every layer has the document's op and ip 0.
C7_OutPoint ==
    LottieDone =>
        /\ lottie.op = ExpectedOutPoint
        /\ lottie.ip = 0
        /\ lottie.fr = 60
        /\ \A j \in 1..Len(lottie.layers) :
              lottie.layers[j].op = lottie.op /\ lottie.layers[j].ip = 0

\* tempo 0.9: 8 / 0.9 * 60 = 533.33..., so the end frame is 534
C7_Witness ==
    /\ LottieDone
    /\ animationSettings.supplied
    /\ animationSettings.pulseTempo = R(9, 10)
    /\ Len(lottie.layers) > 0
    /\ lottie.op = 534

\* the peak scale keyframe of a layer of the animated document
LottiePeak(layer) == layer.ks.s.k[2].s[1]

\* C8: for every pulseStrength and pulseTempo (out of range and omitted
\* included) both export renderers derive clampedPulse = clamp(pulseStrength,
\* 0, 0.35) and clampedTempo = clamp(pulseTempo, 0.25, 3): the SVG peak scale
\* 1 + clampedPulse is the Lottie peak scale divided by 100, the SVG timing
\* and the Lottie end frame use the same tempo, and clamping a clamped value
\* changes nothing.
C8_SameClampInBothRenderers ==
    (SvgDone /\ LottieDone) =>
        /\ SvgClampedPulse(animationSettings) = ExpectedPulse
        /\ LottieClampedPulse(animationSettings) = ExpectedPulse
        /\ SvgClampedTempo(animationSettings) = ExpectedTempo
        /\ LottieClampedTempo(animationSettings) = ExpectedTempo
        /\ ExpectedClamp(ExpectedPulse, [n |-> 0, d |-> 1], [n |-> 7, d |-> 20])
               = ExpectedPulse
        /\ ExpectedClamp(ExpectedTempo, [n |-> 1, d |-> 4], [n |-> 3, d |-> 1])
               = ExpectedTempo
        /\ lottie.op = ExpectedOutPoint
        /\ (GivenOrganicPulse /\ Len(dots) > 0) =>
               /\ svgString[2].keyframes.scale
                      = ToFixed(RAdd(RInt(1), ExpectedPulse), 3)
               /\ \A j \in 1..Len(lottie.layers) :
                      /\ LottiePeak(lottie.layers[j])
                             = RMul(RAdd(RInt(1), ExpectedPulse), RInt(100))
                      /\ ToFixed(RDiv(LottiePeak(lottie.layers[j]), RInt(100)), 3)
                             = svgString[2].keyframes.scale
               /\ \A j \in 1..Len(SvgGroups) :
                      LET dot == dots[VisibleIndices[j]]
                      IN  SvgGroups[j].style.animationDuration
                              = ToFixed(RDiv(RAdd(RInt(6), RDiv(RMul(dot.x, RInt(2)),
                                                                 RInt(width))),
                                             ExpectedTempo), 2)

\* both renderers have run with a pulse strength and a tempo above their
\* ranges, on a field with a visible dot
C8_Witness ==
    /\ SvgDone /\ LottieDone
    /\ animationSettings.supplied /\ animationSettings.organicPulse
    /\ animationSettings.pulseStrength = R(1, 2)
    /\ animationSettings.pulseTempo = RInt(4)
    /\ Len(lottie.layers) > 0
    /\ svgString[2].keyframes.scale = 1350
    /\ LottiePeak(lottie.layers[1]) = RInt(135)
    /\ lottie.op = 160

\* C14: for the empty dot field neither export renderer fails:
\* generateSvgString returns the empty string, and generateLottieAnimation
\* returns a document with layers = [] whose op is still
\* ceil(8 / clamp(pulseTempo, 0.25, 3) * 60).
C14_EmptyField ==
    Len(dots) = 0 =>
        /\ SvgDone => svgString = << >>
        /\ LottieDone =>
               /\ lottie.layers = << >>
               /\ lottie.op = ExpectedOutPoint
               /\ lottie.ip = 0 /\ lottie.fr = 60
               /\ lottie.w = width /\ lottie.h = height

\* both renderers have run on the empty field with a tempo below the range:
\* 8 / 0.25 * 60 = 1920 frames
C14_Witness ==
    /\ Len(dots) = 0 /\ SvgDone /\ LottieDone
    /\ animationSettings.supplied
    /\ animationSettings.pulseTempo = R(1, 8)
    /\ svgString = << >>
    /\ lottie.layers = << >>
    /\ lottie.op = 1920

\* what the markup contains: the @keyframes htPulse rule, the declaration
\* animation-name: htPulse, the .ht-dot rule, and groups with a timing style
HasKeyframesRule ==
    \E j \in 1..Len(svgString) :
        svgString[j].kind = "defs" /\ svgString[j].keyframes.name = "htPulse"
HasAnimationName ==
    \E j \in 1..Len(svgString) :
        svgString[j].kind = "defs" /\ svgString[j].dotRule.animationName = "htPulse"
HasDotRule ==
    \E j \in 1..Len(svgString) :
        svgString[j].kind = "defs" /\ svgString[j].dotRule.class = "ht-dot"
GroupsOfMarkup == SelectSeq(svgString, LAMBDA part : part.kind = "g")
HasTimingStyle(group) ==
    DOMAIN group.style = {"animationDuration", "animationDelay"}

\* every dot with size > 0.1 is wrapped, in order, in a group of class ht-dot
\* with its data-x and data-y, and the group carries the timing style exactly
\* when the pulse is on
GroupsWrapDots ==
    /\ Len(GroupsOfMarkup) = Len(VisibleIndices)
    /\ \A j \in 1..Len(GroupsOfMarkup) :
          LET group == GroupsOfMarkup[j]
              dot == dots[VisibleIndices[j]]
          IN  /\ group.class = "ht-dot"
              /\ group.dataX = ToFixed(dot.x, 2)
              /\ group.dataY = ToFixed(dot.y, 2)
              /\ group.child.tag \in ShapeTags
              /\ HasTimingStyle(group) <=> GivenOrganicPulse

\* C15 as stated: in generateSvgString the @keyframes htPulse rule, the
\* animation-name: htPulse declaration and the per-dot animation-duration /
\* animation-delay style are emitted if and only if organicPulse is true; in
\* both cases every rendered dot is wrapped in a group of class ht-dot that
\* carries data-x and data-y, and the .ht-dot style rule is present.
C15_PulseMarkupIffPulse ==
    SvgDone =>
        /\ HasKeyframesRule <=> GivenOrganicPulse
        /\ HasAnimationName <=> GivenOrganicPulse
        /\ HasDotRule
        /\ GroupsWrapDots

\* C15, amended: the same for a non-empty dot field; for the empty field the
\* markup is the empty string, with no rule at all (C14).
C15_PulseMarkupIffPulseNonEmpty ==
    (SvgDone /\ Len(dots) > 0) =>
        /\ HasKeyframesRule <=> GivenOrganicPulse
        /\ HasAnimationName <=> GivenOrganicPulse
        /\ HasDotRule
        /\ GroupsWrapDots

\* a field with a visible dot rendered with the pulse switched off: no
\* keyframes and no timing, but the group, its class and the rule remain
C15_Witness ==
    /\ SvgDone /\ Len(dots) > 0
    /\ animationSettings.supplied /\ ~animationSettings.organicPulse
    /\ Len(GroupsOfMarkup) > 0
    /\ GroupsOfMarkup[1].class = "ht-dot"
    /\ ~HasTimingStyle(GroupsOfMarkup[1])
    /\ ~HasKeyframesRule /\ ~HasAnimationName /\ HasDotRule

\* a dot lies within the canvas, its edges included
WithinCanvas(dot) ==
    /\ 0 <= dot.x.n /\ dot.x.n <= width * dot.x.d
    /\ 0 <= dot.y.n /\ dot.y.n <= height * dot.y.d

\* (x / width + y / height) * 4 / tempo and (6 + 2 * x / width) / tempo, as
\* fractions over a common denominator, for the clamped tempo
ExpectedDelay(dot) ==
    [n |-> 4 * (dot.x.n * height * dot.y.d + dot.y.n * width * dot.x.d)
               * ExpectedTempo.d,
     d |-> width * height * dot.x.d * dot.y.d * ExpectedTempo.n]
ExpectedDuration(dot) ==
    [n |-> (6 * width * dot.x.d + 2 * dot.x.n) * ExpectedTempo.d,
     d |-> width * dot.x.d * ExpectedTempo.n]

SameNumber(a, b) == a.n * b.d = b.n * a.d
AtMost(a, b) == a.n * b.d <= b.n * a.d

\* the number of hundredths nearest to a >= 0, the upper one at a tie
Hundredths(a) == (200 * a.n + a.d) \div (2 * a.d)

\* C16: with the pulse enabled, for every rendered dot within the canvas
\* (0 <= x <= width, 0 <= y <= height) the per-dot timing of the static
\* renderer is delay = (x / width + y / height) * 4 / tempo and duration =
\* (6 + 2 * x / width) / tempo with tempo = clamp(pulseTempo, 0.25, 3), so
\* 0 <= delay <= 8 / tempo and 6 / tempo <= duration <= 8 / tempo; the
\* markup carries both to two decimals.
C16_SvgTiming ==
    (SvgDone /\ GivenOrganicPulse) =>
        \A j \in 1..Len(GroupsOfMarkup) :
            LET dot == dots[VisibleIndices[j]]
                delay == SvgDelay(dot, width, height, animationSettings)
                duration == SvgDuration(dot, width, height, animationSettings)
                six == [n |-> 6 * ExpectedTempo.d, d |-> ExpectedTempo.n]
                eight == [n |-> 8 * ExpectedTempo.d, d |-> ExpectedTempo.n]
            IN  WithinCanvas(dot) =>
                    /\ SameNumber(delay, ExpectedDelay(dot))
                    /\ SameNumber(duration, ExpectedDuration(dot))
                    /\ AtMost([n |-> 0, d |-> 1], delay) /\ AtMost(delay, eight)
                    /\ AtMost(six, duration) /\ AtMost(duration, eight)
                    /\ GroupsOfMarkup[j].style.animationDelay
                           = Hundredths(ExpectedDelay(dot))
                    /\ GroupsOfMarkup[j].style.animationDuration
                           = Hundredths(ExpectedDuration(dot))

\* at the default tempo 1 the markup has a dot in the top-left corner with
\* delay 0 s and duration 6 s and a dot in the bottom-right corner with delay
\* 8 s and duration 8 s
C16_Witness ==
    /\ SvgDone /\ GivenOrganicPulse /\ ExpectedTempo = [n |-> 1, d |-> 1]
    /\ \E j \in 1..Len(GroupsOfMarkup) :
           /\ GroupsOfMarkup[j].dataX = 0 /\ GroupsOfMarkup[j].dataY = 0
           /\ GroupsOfMarkup[j].style.animationDelay = 0
           /\ GroupsOfMarkup[j].style.animationDuration = 600
    /\ \E j \in 1..Len(GroupsOfMarkup) :
           /\ GroupsOfMarkup[j].dataX = 100 * width
           /\ GroupsOfMarkup[j].dataY = 100 * height
           /\ GroupsOfMarkup[j].style.animationDelay = 800
           /\ GroupsOfMarkup[j].style.animationDuration = 800

\* the dot a layer was made from, read back from the layer's position
LayerDot(layer) == [x |-> layer.ks.p.k[1], y |-> layer.ks.p.k[2]]

\* seconds to frames at 60 fps, the nearest frame and the later one at a tie
Frames(a) == (120 * a.n + a.d) \div (2 * a.d)

\* the times of the keyframes of an animated property
KeyframeTimes(property) == [i \in 1..Len(property.k) |-> property.k[i].t]

\* C17: in generateLottieAnimation with the pulse enabled, for every layer
\* the delay and the duration in frames (the formulas of the static renderer
\* at 60 fps) are clamped so that clampedDelay <= outPoint - 10 and
\* clampedDelay + clampedDuration <= outPoint; the layer's peak keyframe is
\* at a frame <= outPoint - 1 and its last keyframe exactly at outPoint.
C17_LayerTimingWithinTimeline ==
    (LottieDone /\ GivenOrganicPulse) =>
        \A j \in 1..Len(lottie.layers) :
            LET layer == lottie.layers[j]
                dot == LayerDot(layer)
                t == LottieTiming(dot, width, height, animationSettings)
                outPoint == lottie.op
            IN  /\ t.delayFrames = Frames(ExpectedDelay(dot))
                /\ t.durationFrames = Frames(ExpectedDuration(dot))
                /\ t.clampedDelay <= t.delayFrames
                /\ t.clampedDuration <= t.durationFrames
                /\ t.clampedDelay <= outPoint - 10
                /\ t.clampedDelay + t.clampedDuration <= outPoint
                /\ KeyframeTimes(layer.ks.s) = <<0, t.midFrame, outPoint>>
                /\ KeyframeTimes(layer.ks.o) = <<0, t.midFrame, outPoint>>
                /\ layer.ks.s.k[2].t <= outPoint - 1
                /\ layer.ks.s.k[3].t = ExpectedOutPoint

\* at tempo 1 a layer whose delay of 480 frames is clamped to 470, which
\* leaves 10 frames of duration and puts the peak at frame 475 of 480
C17_Witness ==
    /\ LottieDone /\ GivenOrganicPulse /\ lottie.op = 480
    /\ \E j \in 1..Len(lottie.layers) :
           LET t == LottieTiming(LayerDot(lottie.layers[j]), width, height,
                                 animationSettings)
           IN  /\ t.delayFrames = 480 /\ t.clampedDelay = 470
               /\ t.durationFrames = 480 /\ t.clampedDuration = 10
               /\ KeyframeTimes(lottie.layers[j].ks.s) = <<0, 475, 480>>

\* the dots kept as layers, in processing order: the non-negligible dots, or
\* when there are more than 200 of them those at the positions 0, stride,
\* 2 * stride, ... with stride = ceil(count / 200)
KeptIndices ==
    LET count == Len(VisibleIndices)
        stride == (count + 199) \div 200
    IN  IF count > 200
        THEN [m \in 1..((count + stride - 1) \div stride) |->
                 VisibleIndices[(m - 1) * stride + 1]]
        ELSE VisibleIndices

\* C18: the layers are in the reverse of the dot-processing order: if the k
\* dots kept as layers are processed in the order d1..dk, di receiving ind = i
\* and the name "Dot i", the layers list is [layer(dk), ..., layer(d1)], that
\* is layers[j].ind = k - j for 0 <= j < k, and the ind values are exactly
\* 1..k without repetition.
C18_LayersReversed ==
    LottieDone =>
        LET k == Len(lottie.layers)
        IN  /\ k = Len(KeptIndices)
            /\ \A j \in 0..(k - 1) :
                  LET layer == lottie.layers[j + 1]
                      dot == dots[KeptIndices[k - j]]
                  IN  /\ layer.ind = k - j
                      /\ layer.nm = <<"Dot", k - j>>
                      /\ LayerDot(layer) = [x |-> dot.x, y |-> dot.y]
            /\ {lottie.layers[j].ind : j \in 1..k} = 1..k

\* three layers made from three visible dots at different places: the first
\* layer is the third dot's and the last layer the first dot's
C18_Witness ==
    /\ LottieDone /\ Len(dots) = 3 /\ Len(lottie.layers) = 3
    /\ lottie.layers[1].ind = 3 /\ lottie.layers[3].ind = 1
    /\ lottie.layers[1].nm = <<"Dot", 3>>
    /\ LayerDot(lottie.layers[1]) = [x |-> dots[3].x, y |-> dots[3].y]
    /\ LayerDot(lottie.layers[3]) = [x |-> dots[1].x, y |-> dots[1].y]
    /\ dots[1].x # dots[3].x

\* the layer made from the m-th dot kept, m = 1 .. number of layers
LayerOfKept(m) == lottie.layers[Len(lottie.layers) + 1 - m]

\* the diameter of a layer's shape
LayerDiameter(layer) == layer.shapes[1].it[1].s.k[1]

\* C23: layer selection in generateLottieAnimation is index-stride sampling:
\* with F the dots of size > 0.1 in order and n their number, for n <= 200
\* every dot of F becomes a layer, and for n > 200 exactly the dots F[i]
\* with i mod ceil(n / 200) = 0 do; F[0] is always kept, the order of F is
\* preserved, and no dot of size <= 0.1 becomes a layer.
C23_StrideSampling ==
    LottieDone =>
        LET F == VisibleIndices
            n == Len(F)
            stride == IF n % 200 = 0 THEN n \div 200 ELSE n \div 200 + 1
            chosen == IF n <= 200 THEN 0..(n - 1)
                      ELSE { i \in 0..(n - 1) : i % stride = 0 }
            k == Len(lottie.layers)
            \* the 0-based index in F of the m-th layer's dot
            pick(m) == IF n <= 200 THEN m - 1 ELSE (m - 1) * stride
        IN  /\ k = Cardinality(chosen)
            /\ \A m \in 1..k :
                  LET dot == dots[F[pick(m) + 1]]
                      layer == LayerOfKept(m)
                  IN  /\ pick(m) \in chosen
                      /\ layer.ind = m
                      /\ LayerDot(layer) = [x |-> dot.x, y |-> dot.y]
                      /\ LayerDiameter(layer) = RMax(RMul(dot.size, RInt(20)), RInt(5))
                      /\ NonNegligible(dot)
            /\ { pick(m) : m \in 1..k } = chosen
            /\ n > 0 => LayerDot(LayerOfKept(1)) = [x |-> dots[F[1]].x, y |-> dots[F[1]].y]

\* 402 visible dots sampled with stride 3 into 134 layers, and the second
\* layer made is that of the fourth dot, not of the second
C23_Witness ==
    /\ LottieDone /\ Len(VisibleIndices) = 2 * maxDots + 2
    /\ Len(lottie.layers) = 134
    /\ LayerDot(LayerOfKept(2)) = [x |-> dots[4].x, y |-> dots[4].y]
    /\ dots[4].x # dots[2].x

\* C24: the keyframes of every layer are fixed by organicPulse: when it is
\* on, scale has exactly three keyframes with the values 100,
\* 100 * (1 + clampedPulse), 100, the first at frame 0 and the last at
\* outPoint, and opacity has exactly three keyframes, all of value 100; when
\* it is off, scale and opacity each have exactly one keyframe, at frame 0,
\* of value 100.
C24_KeyframeStructure ==
    LottieDone =>
        \A j \in 1..Len(lottie.layers) :
            LET scale == lottie.layers[j].ks.s
                opacity == lottie.layers[j].ks.o
                hundred == [n |-> 100, d |-> 1]
                peak == [n |-> 100 * (ExpectedPulse.d + ExpectedPulse.n),
                         d |-> ExpectedPulse.d]
            IN  /\ scale.a = 1 /\ opacity.a = 1
                /\ IF GivenOrganicPulse
                   THEN /\ Len(scale.k) = 3 /\ Len(opacity.k) = 3
                        /\ scale.k[1].s = <<hundred, hundred>>
                        /\ Len(scale.k[2].s) = 2
                        /\ \A i \in 1..2 : SameNumber(scale.k[2].s[i], peak)
                        /\ scale.k[3].s = <<hundred, hundred>>
                        /\ scale.k[1].t = 0 /\ scale.k[3].t = lottie.op
                        /\ \A i \in 1..3 : opacity.k[i].s = <<hundred>>
                   ELSE /\ Len(scale.k) = 1 /\ Len(opacity.k) = 1
                        /\ scale.k[1].t = 0 /\ opacity.k[1].t = 0
                        /\ scale.k[1].s = <<hundred, hundred>>
                        /\ opacity.k[1].s = <<hundred>>

\* a layer exported with the pulse off, with its single keyframes
C24_Witness ==
    /\ LottieDone /\ ~GivenOrganicPulse
    /\ Len(lottie.layers) > 0
    /\ Len(lottie.layers[1].ks.s.k) = 1
    /\ Len(lottie.layers[1].ks.o.k) = 1
    /\ lottie.layers[1].ks.s.k[1].t = 0

\* C29: with the pulse enabled, for every layer whose dot lies within the
\* canvas (0 <= x <= width, 0 <= y <= height) and for every pulseTempo the
\* three keyframe times are strictly increasing: 0 < midFrame < outPoint.
C29_KeyframeTimesIncrease ==
    (LottieDone /\ GivenOrganicPulse) =>
        \A j \in 1..Len(lottie.layers) :
            LET layer == lottie.layers[j]
            IN  WithinCanvas(LayerDot(layer)) =>
                    \A property \in {layer.ks.s, layer.ks.o} :
                        /\ Len(property.k) = 3
                        /\ property.k[1].t = 0
                        /\ property.k[1].t < property.k[2].t
                        /\ property.k[2].t < property.k[3].t
                        /\ property.k[3].t = lottie.op

\* at the fastest tempo, 3, the timeline has 160 frames; the dot at
\* (1.5, 3) of the 6 x 3 canvas has a delay of 100 frames and 60 frames left
\* for its pulse, which peaks at frame 130
C29_Witness ==
    /\ LottieDone /\ GivenOrganicPulse /\ lottie.op = 160
    /\ \E j \in 1..Len(lottie.layers) :
           /\ LayerDot(lottie.layers[j]) = [x |-> R(3, 2), y |-> RInt(3)]
           /\ KeyframeTimes(lottie.layers[j].ks.s) = <<0, 130, 160>>
           /\ KeyframeTimes(lottie.layers[j].ks.o) = <<0, 130, 160>>

-----------------------------------------------------------------------------
(* Claims about two animated exports (SpecTwoExports) *)

RecoloredDone == "generateLottieAnimation, recolored" \in done

\* the fill colour of each layer of a document
LayerFills(document) ==
    {document.layers[j].shapes[1].it[2].c.k : j \in 1..Len(document.layers)}

\* the two inputs agree in everything but the dots' colours and the colour
\* fields of the settings
DifferOnlyInColor ==
    /\ Len(recolored.dots) = Len(dots)
    /\ \A i \in 1..Len(dots) :
          /\ recolored.dots[i].x = dots[i].x
          /\ recolored.dots[i].y = dots[i].y
          /\ recolored.dots[i].size = dots[i].size
    /\ \A f \in DOMAIN settings \ {"color1", "color2", "useGradient",
                                   "gradientDirection", "fillPattern"} :
          recolored.settings[f] = settings[f]

-----------------------------------------------------------------------------
(* Claims about the glyph of the static renderer (SpecRender) *)

Entities ==
    { <<"&", "a", "m", "p", ";">>, <<"&", "l", "t", ";">>, <<"&", "g", "t", ";">> }

\* one character of a glyph, as it must appear in the markup
EscapedCharacter(ch) ==
    CASE ch = "&" -> <<"&", "a", "m", "p", ";">>
      [] ch = "<" -> <<"&", "l", "t", ";">>
      [] ch = ">" -> <<"&", "g", "t", ";">>
      [] OTHER -> <<ch>>

\* a glyph escaped character by character, in one pass
RECURSIVE EscapedGlyph(_)
EscapedGlyph(glyph) ==
    IF glyph = << >> THEN << >>
    ELSE EscapedCharacter(Head(glyph)) \o EscapedGlyph(Tail(glyph))

\* the glyph drawn for dotShape "custom": customCharacter, or "*" when it is
\* empty
CustomGlyph ==
    IF settings.customCharacter = << >> THEN <<"*">> ELSE settings.customCharacter

\* an entity starts at position i of the text
EntityAt(text, i) ==
    \E e \in Entities :
        i + Len(e) - 1 <= Len(text) /\ SubSeq(text, i, i + Len(e) - 1) = e

\* C20: for dotShape "custom" and every custom glyph, the text of each <text>
\* element is the glyph with every "&" replaced by "&amp;", every "<" by
\* "&lt;" and every ">" by "&gt;", the "&" first, so that the ampersands of
\* the entities are not escaped again; the text has no raw "<" or ">" and no
\* "&" that does not start one of the three entities.
C20_GlyphEscaped ==
    (SvgDone /\ settings.dotShape = "custom") =>
        \A j \in 1..Len(GroupsOfMarkup) :
            LET text == GroupsOfMarkup[j].child.text
            IN  /\ GroupsOfMarkup[j].child.tag = "text"
                /\ text = EscapedGlyph(CustomGlyph)
                /\ \A i \in 1..Len(text) :
                      /\ text[i] \notin {"<", ">"}
                      /\ text[i] = "&" => EntityAt(text, i)

EscapedLtAmpGt ==
    <<"&", "l", "t", ";", "&", "a", "m", "p", ";", "&", "g", "t", ";">>

\* the glyph "<&>" rendered as "&lt;&amp;&gt;"
C20_Witness ==
    /\ SvgDone /\ settings.dotShape = "custom"
    /\ settings.customCharacter = <<"<", "&", ">">>
    /\ Len(GroupsOfMarkup) > 0
    /\ GroupsOfMarkup[1].child.text = EscapedLtAmpGt

-----------------------------------------------------------------------------
-----------------------------------------------------------------------------
\* C22 as stated: animation embedding in the static renderer is conditional
\* on animationSettings being supplied: a generateSvgString call without
\* animationSettings emits no pulse keyframe rule and no per-dot
\* animation-duration / animation-delay timing.
C22_NoPulseWithoutAnimationSettings ==
    (SvgDone /\ ~animationSettings.supplied) =>
        /\ ~HasKeyframesRule
        /\ \A j \in 1..Len(GroupsOfMarkup) : ~HasTimingStyle(GroupsOfMarkup[j])

\* C22, amended: a generateSvgString call without animationSettings runs
\* with organicPulse = true, pulseStrength = 0.08 and pulseTempo = 1: on a
\* non-empty dot field it emits the htPulse keyframe rule with peak scale
\* 1.080 and low opacity 0.83, the animation-name declaration, and for
\* every rendered dot the animation-duration (6 + 2 * x / width) s and the
\* animation-delay (x / width + y / height) * 4 s, to two decimals.
C22_PulseByDefault ==
    (SvgDone /\ ~animationSettings.supplied /\ Len(dots) > 0) =>
        /\ HasKeyframesRule /\ HasAnimationName
        /\ svgString[2].keyframes.scale = 1080
        /\ svgString[2].keyframes.opacity = 83
        /\ Len(GroupsOfMarkup) = Len(VisibleIndices)
        /\ \A j \in 1..Len(GroupsOfMarkup) :
              LET dot == dots[VisibleIndices[j]]
                  group == GroupsOfMarkup[j]
              IN  /\ HasTimingStyle(group)
                  /\ group.style.animationDuration
                         = Hundredths(RAdd(RInt(6),
                                           RDiv(RMul(RInt(2), dot.x), RInt(width))))
                  /\ group.style.animationDelay
                         = Hundredths(RMul(RInt(4),
                                           RAdd(RDiv(dot.x, RInt(width)),
                                                RDiv(dot.y, RInt(height)))))

\* the static renderer has run without animationSettings on a field with a
\* rendered dot, and the markup carries the keyframes and the dot's timing
C22_Witness ==
    /\ SvgDone /\ ~animationSettings.supplied
    /\ Len(GroupsOfMarkup) > 0
    /\ HasKeyframesRule
    /\ HasTimingStyle(GroupsOfMarkup[1])
    /\ GroupsOfMarkup[1].style.animationDuration >= 600

-----------------------------------------------------------------------------
(* Further claims about the dot field generator (SpecGen) *)

\* the sample point and the pixel index of grid cell (r, c)
CellSampleX(c) == SamplePoint(R(c * width, FieldCols), R(width, FieldCols))
CellSampleY(r) == SamplePoint(R(r * height, FieldRows), R(height, FieldRows))
CellPixelIndex(r, c) == (CellSampleY(r) * width + CellSampleX(c)) * 4

\* C27: for width >= 1, height >= 1, cols >= 1 and rows >= 1 the sample
\* point of every grid cell satisfies 0 <= sampleX < width and
\* 0 <= sampleY < height, so the reads at pixelIndex, pixelIndex + 1 and
\* pixelIndex + 2 are inside a buffer of width * height * 4 values, also
\* when cols > width or rows > height; no dot's size is computed from a
\* value read outside the buffer.
C27_SampleInsideBuffer ==
    (Generated /\ FieldRows >= 1 /\ Len(pixelData) = width * height * 4) =>
        \A r \in 0..(FieldRows - 1), c \in 0..(FieldCols - 1) :
            /\ 0 <= CellSampleX(c) /\ CellSampleX(c) < width
            /\ 0 <= CellSampleY(r) /\ CellSampleY(r) < height
            /\ 0 <= CellPixelIndex(r, c)
            /\ CellPixelIndex(r, c) + 2 < Len(pixelData)
            /\ DotAt(r, c).size # NaN

\* a grid with more columns than the image has pixel columns and more rows
\* than it has pixel rows: 2 x 6 cells on a 1 x 3 image
C27_Witness ==
    /\ Generated /\ width = 1 /\ height = 3
    /\ FieldCols = 2 /\ FieldRows = 6 /\ Len(dots) = 12
    /\ Len(pixelData) = 12
    /\ CellSampleX(1) = 0 /\ CellSampleY(5) = 2
    /\ DotAt(5, 1).size # NaN

\* C30: for randomness in [0, 1] and random numbers in [0, 1) every dot
\* lies inside its own grid cell: c * cellWidth <= x < (c + 1) * cellWidth
\* and r * cellHeight <= y < (r + 1) * cellHeight for the dot of cell
\* (r, c), hence 0 <= x < width and 0 <= y < height; with randomness = 0
\* the dot is exactly at the cell centre.
C30_DotInsideItsCell ==
    (Generated /\ Len(dots) > 0
       /\ RLe(RInt(0), settings.randomness) /\ RLe(settings.randomness, RInt(1))) =>
        \A r \in 0..(FieldRows - 1), c \in 0..(FieldCols - 1) :
            LET dot == DotAt(r, c)
                \* x * cols and y * rows, in cell units
                cx == [n |-> dot.x.n * FieldCols, d |-> dot.x.d * width]
                cy == [n |-> dot.y.n * FieldRows, d |-> dot.y.d * height]
            IN  /\ c * cx.d <= cx.n /\ cx.n < (c + 1) * cx.d
                /\ r * cy.d <= cy.n /\ cy.n < (r + 1) * cy.d
                /\ 0 <= dot.x.n /\ dot.x.n < width * dot.x.d
                /\ 0 <= dot.y.n /\ dot.y.n < height * dot.y.d
                /\ settings.randomness = RInt(0) =>
                       /\ 2 * cx.n = (2 * c + 1) * cx.d
                       /\ 2 * cy.n = (2 * r + 1) * cy.d

\* full randomness with a dot on the left edge of its cell (the random
\* number 0) and above the centre line of its cell (the random number 1/4)
C30_Witness ==
    /\ Generated /\ settings.randomness = RInt(1)
    /\ FieldCols = 2 /\ FieldRows >= 2
    /\ DotAt(0, 0).x = RInt(0)
    /\ DotAt(0, 0).y = R(height, 4 * FieldRows)
    /\ RLe(R(width, 2), DotAt(0, 1).x)

-----------------------------------------------------------------------------
(* Claims about the live hook (SpecHook) *)

\* a render whose settings differ from those before in colour and gradient
\* fields only, while an image is installed and its dots are shown
ColorOnlyChange ==
    /\ settings' # settings
    /\ ~Changed(settings, settings', DOMAIN settings \ ColorFields)
    /\ imageElementRef # NoImage
    /\ Len(dots) > 0

\* the same number of dots, each with the same position and size
SamePlacement(before, after) ==
    /\ Len(after) = Len(before)
    /\ \A i \in 1..Len(before) :
          /\ after[i].x = before[i].x
          /\ after[i].y = before[i].y
          /\ after[i].size = before[i].size

\* C25 as stated: in the live hook a change to colour or gradient settings
\* only, while an image is loaded, recolours the existing dot field without
\* sampling again: after the effects triggered by the change have run the
\* dot field has the same count, order, positions (jitter included) and
\* sizes as before, and only the colours may differ.
C25_RecolorKeepsPlacement ==
    [][ColorOnlyChange => SamePlacement(dots, dots')]_vars

\* C28 as stated: image loads do not race: a load overtaken by a change of
\* source never installs its image or its dot field, so once the source is
\* cleared the dot field stays empty and no image is installed, and once
\* every load has completed the image installed is the current source's,
\* whatever the order of completion.
C28_NoStaleLoad ==
    /\ imageSrc = NoImage => (Len(dots) = 0 /\ imageElementRef = NoImage)
    /\ (imageSrc # NoImage /\ loads = {}) => imageElementRef = imageSrc

-----------------------------------------------------------------------------
(* Claims about the click pulse (SpecClick) *)

\* the component's click-pulse state, the clock left out
clickState == <<lastClickTsRef, clickAnimationFrameRef, frames, nextFrame,
                clickWaveEnabledRef, clickPulses, mounted>>

\* C26: a click less than 100 ms after the last accepted click changes no
\* state and requests no frame; an accepted click cancels the frame still
\* pending before it requests its own, so that after any sequence of clicks
\* and frame callbacks at most one click-pulse frame callback is pending,
\* and none is pending after unmount.
C26_ClickThrottle ==
    /\ [](Cardinality(frames) <= 1)
    /\ [](~mounted => frames = {})
    /\ [][(now' # now /\ now' - lastClickTsRef < ClickThrottleMs)
             => UNCHANGED clickState]_vars
    /\ [][(now' # now /\ frames' # frames)
             => (frames' \cap frames = {} /\ frames' \subseteq {clickAnimationFrameRef'})]_vars

\* a second click has been accepted while the frame of the first was
\* pending: only the second frame is pending
C26_Witness ==
    /\ mounted /\ frames = {2} /\ clickAnimationFrameRef = 2
    /\ lastClickTsRef >= 2 * ClickThrottleMs
    /\ clickPulses = 0

=============================================================================
